---- MODULE Spec2Model ----
(***************************************************************************)
(* Model of the risk-decision engine of isms_project: the control          *)
(* sequencing entry point (common/rqmc_sobol_sensitivity_analysis.py), the *)
(* vendor assessment entry point (common/rqmc_vendor_assessment.py) and    *)
(* the two request handlers that call them (routes/user_risk_calc.py).     *)
(*                                                                         *)
(* Numbers.  A float is modelled by an exact rational <<n, d>> with d > 0  *)
(* in lowest terms, or by one of the three IEEE-754 specials the numpy     *)
(* arithmetic of the engine produces instead of raising: <<1, 0>> (+inf),  *)
(* <<-1, 0>> (-inf) and <<0, 0>> (NaN).  Monetary amounts are written in   *)
(* thousands (asset_value 100000 is 100, a cost of 500 is 1/2): ALE scales *)
(* linearly with the unit and ROSI does not depend on it.                  *)
(***************************************************************************)
EXTENDS Integers, Sequences, FiniteSets, TLC

VARIABLES rng, sobolTable, vectorRosi, call, outcome, sampled, engineInvoked, columnsRead, result, earlier, files,
          loader, audit

\* The variables of the risk engine and its callers
engineVars == <<rng, sobolTable, vectorRosi, call, outcome, sampled, engineInvoked, columnsRead, result, earlier, files>>

vars == <<engineVars, loader, audit>>

(***************************************************************************)
(* Rational arithmetic with the IEEE specials.                             *)
(***************************************************************************)
Abs(x) == IF x < 0 THEN -x ELSE x

RECURSIVE Gcd(_, _)
Gcd(a, b) == IF b = 0 THEN a ELSE Gcd(b, a % b)

Sign(x) == IF x < 0 THEN -1 ELSE IF x > 0 THEN 1 ELSE 0

NaN == <<0, 0>>
PosInf == <<1, 0>>
NegInf == <<-1, 0>>

IsFinite(a) == a[2] # 0
IsNaN(a) == a = NaN

\* n / d in lowest terms with a positive denominator, g their greatest common divisor
Reduce(n, d, g) == IF d < 0 THEN <<(-n) \div g, (-d) \div g>> ELSE <<n \div g, d \div g>>

Norm(n, d) == Reduce(n, d, Gcd(Abs(n), Abs(d)))

R(n) == <<n, 1>>
Frac(n, d) == Norm(n, d)

RNeg(a) == <<-a[1], a[2]>>

RAdd(a, b) ==
    IF IsNaN(a) \/ IsNaN(b) THEN NaN
    ELSE IF ~IsFinite(a) THEN (IF ~IsFinite(b) /\ b # a THEN NaN ELSE a)
    ELSE IF ~IsFinite(b) THEN b
    ELSE Norm(a[1] * b[2] + b[1] * a[2], a[2] * b[2])

RSub(a, b) == RAdd(a, RNeg(b))

RMul(a, b) ==
    IF IsNaN(a) \/ IsNaN(b) THEN NaN
    ELSE IF ~IsFinite(a) \/ ~IsFinite(b)
         THEN (IF a[1] = 0 \/ b[1] = 0 THEN NaN ELSE <<Sign(a[1]) * Sign(b[1]), 0>>)
    ELSE Norm(a[1] * b[1], a[2] * b[2])

\* numpy float64 division: x / 0 is +-inf (0 / 0 is NaN) with a warning, never an exception
RDiv(a, b) ==
    IF IsNaN(a) \/ IsNaN(b) THEN NaN
    ELSE IF ~IsFinite(b) THEN (IF ~IsFinite(a) THEN NaN ELSE R(0))
    ELSE IF b[1] = 0 THEN (IF a[1] = 0 THEN NaN ELSE <<Sign(a[1]), 0>>)
    ELSE IF ~IsFinite(a) THEN <<Sign(a[1]) * Sign(b[1]), 0>>
    ELSE Norm(a[1] * b[2], a[2] * b[1])

\* IEEE comparison: every comparison with NaN is false
RLt(a, b) ==
    IF IsNaN(a) \/ IsNaN(b) THEN FALSE
    ELSE IF a = b THEN FALSE
    ELSE IF a = NegInf \/ b = PosInf THEN TRUE
    ELSE IF a = PosInf \/ b = NegInf THEN FALSE
    ELSE a[1] * b[2] < b[1] * a[2]

REq(a, b) == ~IsNaN(a) /\ ~IsNaN(b) /\ a = b
RLe(a, b) == RLt(a, b) \/ REq(a, b)
RGe(a, b) == RLe(b, a)
RGt(a, b) == RLt(b, a)

RECURSIVE RSum(_)
RSum(s) == IF s = <<>> THEN R(0) ELSE RAdd(RSum(SubSeq(s, 1, Len(s) - 1)), s[Len(s)])

\* numpy mean: the mean of an empty slice is NaN (RuntimeWarning), not an error
RMean(s) == IF s = <<>> THEN NaN ELSE RDiv(RSum(s), R(Len(s)))

\* numpy clip
RClip(x, lo, hi) == IF RLt(x, lo) THEN lo ELSE IF RGt(x, hi) THEN hi ELSE x

Min(a, b) == IF a < b THEN a ELSE b
Max(a, b) == IF a > b THEN a ELSE b

\* The sequence f with its elements computed once (TLC would otherwise
\* recompute an element of [k \in 1..n |-> e] at every use)
Tup(f) == f \o <<>>

\* The field of every record of a sequence
Column(records, field) == Tup([k \in 1..Len(records) |-> records[k][field]])

\* The position of an element in a sequence that has it
IndexOf(s, x) == CHOOSE k \in 1..Len(s) : s[k] = x

(***************************************************************************)
(* Program constants and the bounds of the model.                          *)
(***************************************************************************)
RANDOM_SEED == 42

\* Largest number of controls (sequencing) or vendors (vendor mode) enumerated
MaxControls == 2

\* NUM_SAMPLES is 16384 in the source, far more than TLC can enumerate.  It is
\* scaled so that, as in the source for every practical number of controls,
\* NUM_SAMPLES >= num_controls * num_years: every (year, control) slot of the
\* cost schedule gets a block of at least one row.
NUM_SAMPLES == MaxControls * MaxControls

\* The uniform points a sample can take: 0, 1/2 and 1, by index 0..2
GridPoints == {0, 1, 2}
Uniform(idx) == Frac(idx, 2)

(***************************************************************************)
(* Sample Generator.  SALib's sobol_sample.sample is a deterministic       *)
(* function of the problem, the sample count and its seed argument; which  *)
(* function is not known to the model, so sobolTable (chosen once, never   *)
(* changed) selects it.  Only the first num_samples rows are kept.         *)
(***************************************************************************)
SobolSample(seed, r, c) == (sobolTable + seed + r + c) % 3

\* randomize_sobol_samples draws from numpy's global generator: the shift it
\* applies depends on the state of that generator when it is called
RandomizeSobolSamples(idx, state) == (idx + state) % 3

\* Period of the modelled global generator state
RngPeriod == 3

RngAdvance(state) == RANDOM_SEED + ((state - RANDOM_SEED + 1) % RngPeriod)

\* An entry point without the call of np.random.seed: the generator is used
\* in the state the previous calls left it in
SeedNotReset(state) == state

\* np.random.seed(RANDOM_SEED) at the start of an entry point
SeedAtEntry(state) == RANDOM_SEED

\* sobol_combined[r, c] after randomisation and truncation, as a uniform point
SobolCombined(state, r, c) == Uniform(RandomizeSobolSamples(SobolSample(RANDOM_SEED, r, c), state))

(***************************************************************************)
(* Distribution Mapper.                                                    *)
(***************************************************************************)
\* A fixed-range test that never recognises a fixed range
IsFixedNever(range) == FALSE

IsFixed(range) == range[1] = range[2]

\* Inverse CDF of Beta(1/2, 1/2) (kurtosis 1.7): sin^2(pi u / 2), exact on the grid
BetaPpf(u) ==
    CASE u = R(0) -> R(0)
      [] u = Frac(1, 2) -> Frac(1, 2)
      [] u = R(1) -> R(1)

Rescale(u, range) == RAdd(range[1], RMul(u, RSub(range[2], range[1])))

simulate_exposure_factor_sobol(u, ef_range) ==
    IF IsFixed(ef_range) THEN ef_range[1] ELSE Rescale(BetaPpf(u), ef_range)

simulate_annual_rate_of_occurrence_sobol(u, aro_range) ==
    IF IsFixed(aro_range) THEN aro_range[1] ELSE Rescale(u, aro_range)

simulate_control_effectiveness_sobol(u, range) ==
    IF IsFixed(range) THEN range[1] ELSE Rescale(u, range)

(***************************************************************************)
(* Risk Metric Calculator.                                                 *)
(***************************************************************************)
calculate_ale(asset_value, ef, aro) == RMul(RMul(asset_value, ef), aro)

\* A return on investment that leaves the cost out of the numerator
calculate_rosi_gross(ale_before, ale_after, cost) ==
    RMul(RDiv(RSub(ale_before, ale_after), cost), R(100))

calculate_rosi(ale_before, ale_after, cost) ==
    RMul(RDiv(RSub(RSub(ale_before, ale_after), cost), cost), R(100))

(***************************************************************************)
(* Sequencing mode: the sample slices.                                     *)
(* A scenario scn has the arguments of simulate_control_sequence_          *)
(* optimization: asset_value, ef_range, aro_range, control_costs,          *)
(* cost_adjustment_range, control_reductions, num_years, num_samples.      *)
(***************************************************************************)
SeqFixedFlags(scn) ==
    <<IsFixed(scn.ef_range), IsFixed(scn.aro_range), IsFixed(scn.cost_adjustment_range)>>

\* A param_order with one entry per parameter that varies, whatever the years
ParamBlockOfOneEntry(fixed, name, num_years) ==
    IF fixed THEN <<>> ELSE << <<name, 0>> >>

\* The entries param_order gets for one parameter: one per year, none when fixed
ParamBlock(fixed, name, num_years) ==
    IF fixed THEN <<>> ELSE Tup([i \in 1..num_years |-> <<name, i - 1>>])

\* param_order: one entry per (parameter, year) of each parameter that varies
SeqParamOrder(scn) ==
    ParamBlock(IsFixed(scn.ef_range), "EF", scn.num_years)
    \o ParamBlock(IsFixed(scn.aro_range), "ARO", scn.num_years)
    \o ParamBlock(IsFixed(scn.cost_adjustment_range), "COST", scn.num_years)

\* A copy loop whose column counter starts again at 0 for every parameter
SeqColumnFromZero(scn, p, i) ==
    IF SeqFixedFlags(scn)[p] THEN -1 ELSE i

\* The copy loops: parameter p (1 EF, 2 ARO, 3 COST), year i (0-based) reads
\* column col, where col counts the columns read before it; -1 for a fixed parameter
SeqColumn(scn, p, i) ==
    IF SeqFixedFlags(scn)[p] THEN -1
    ELSE Cardinality({q \in 1..(p - 1) : ~SeqFixedFlags(scn)[q]}) * scn.num_years + i

\* The columns one copy loop reads
ColumnBlock(scn, p) ==
    IF SeqFixedFlags(scn)[p] THEN <<>>
    ELSE Tup([i \in 1..scn.num_years |-> SeqColumn(scn, p, i - 1)])

\* Every column index read by the copy loops, in the order read
SeqColumnsRead(scn) == ColumnBlock(scn, 1) \o ColumnBlock(scn, 2) \o ColumnBlock(scn, 3)

\* ef_slice, aro_slice, cost_adj_slice at row r, year i (both 0-based)
SeqSlice(scn, state, p, range, r, i) ==
    IF SeqFixedFlags(scn)[p] THEN range[1] ELSE SobolCombined(state, r, SeqColumn(scn, p, i))

ef_samples(scn, state, r, i) ==
    simulate_exposure_factor_sobol(SeqSlice(scn, state, 1, scn.ef_range, r, i), scn.ef_range)

aro_samples(scn, state, r, i) ==
    simulate_annual_rate_of_occurrence_sobol(SeqSlice(scn, state, 2, scn.aro_range, r, i), scn.aro_range)

cost_adj_slice(scn, state, r, i) == SeqSlice(scn, state, 3, scn.cost_adjustment_range, r, i)

(***************************************************************************)
(* Cost Compounding Model.  The schedule is a sequence indexed by year + 1 *)
(* (year 0..years) of sequences indexed by control 1..N of records         *)
(* [cost, adjustment].  num_samples is the parameter of the function: the  *)
(* block size is computed from it, the rows come from the slice, which has *)
(* rows 0..sliceRows-1 (a numpy slice past the end is cut, possibly empty).*)
(***************************************************************************)
BlockSize(num_controls, years, num_samples) == Max(1, num_samples \div (num_controls * years))

\* The rows of cost_adj_slice[sample_start:sample_end, ..], where sample_start is
\* ((year - 1) * num_controls + index) * n_avg and sample_end is n_avg further
BlockRows(num_controls, years, num_samples, sliceRows, year, index) ==
    {r \in 0..(sliceRows - 1) :
        /\ ((year - 1) * num_controls + index) * BlockSize(num_controls, years, num_samples) <= r
        /\ r < ((year - 1) * num_controls + index) * BlockSize(num_controls, years, num_samples)
               + BlockSize(num_controls, years, num_samples)}

SetToSeq(S) ==
    Tup([k \in 1..Cardinality(S) |-> CHOOSE x \in S : Cardinality({y \in S : y < x}) = k - 1])

\* adjustment_values: the block's rows of the column index % years
AdjustmentValues(scn, state, rows, index) ==
    Tup([k \in 1..Len(rows) |-> cost_adj_slice(scn, state, rows[k], index % scn.num_years)])

\* adjustment: adjustment_mean rescaled to the cost adjustment range
Adjustment(scn, state, num_samples, year, index) ==
    RAdd(RMul(RMean(AdjustmentValues(scn, state,
                        SetToSeq(BlockRows(Len(scn.control_costs), scn.num_years, num_samples,
                                           scn.num_samples, year, index)),
                        index)),
              RSub(scn.cost_adjustment_range[2], scn.cost_adjustment_range[1])),
         scn.cost_adjustment_range[1])

\* A compounding step that never lets a cost fall below the previous year's
CompoundCostNeverFalling(previous_year_cost, adjustment) ==
    IF IsFinite(adjustment) /\ adjustment[1] < 0
    THEN previous_year_cost
    ELSE RAdd(previous_year_cost, RMul(previous_year_cost, adjustment))

CompoundCost(previous_year_cost, adjustment) ==
    RAdd(previous_year_cost, RMul(previous_year_cost, adjustment))

\* costs[year] from costs[year - 1]
NextYearCosts(previous, scn, state, num_samples, year) ==
    Tup([k \in 1..Len(scn.control_costs) |->
        [cost |-> CompoundCost(previous[k].cost, Adjustment(scn, state, num_samples, year, k - 1)),
         adjustment |-> Adjustment(scn, state, num_samples, year, k - 1)]])

\* A schedule whose every year, year 0 included, is the base cost compounded by
\* the lower end of the cost adjustment range
CostYearAdjustedFromBase(scn, state, num_samples, year) ==
    Tup([k \in 1..Len(scn.control_costs) |->
        [cost |-> CompoundCost(scn.control_costs[k], scn.cost_adjustment_range[1]),
         adjustment |-> scn.cost_adjustment_range[1]]])

RECURSIVE CostYear(_, _, _, _)
CostYear(scn, state, num_samples, year) ==
    IF year = 0
    THEN Tup([k \in 1..Len(scn.control_costs) |-> [cost |-> scn.control_costs[k], adjustment |-> R(0)]])
    ELSE NextYearCosts(CostYear(scn, state, num_samples, year - 1), scn, state, num_samples, year)

calculate_compounding_costs(scn, state, num_samples) ==
    Tup([y \in 1..(scn.num_years + 1) |-> CostYear(scn, state, num_samples, y - 1)])

(***************************************************************************)
(* Permutation Evaluator.                                                  *)
(***************************************************************************)
\* total_cost of year index `year` (0-based): the costs, in the schedule of
\* year + 1, of the controls in positions 0..year of the permutation
TotalCost(costs, permutation, year) ==
    RSum(Tup([k \in 1..(year + 1) |-> costs[year + 2][permutation[k]].cost]))

\* results[f"year_{year + 1}"]
YearRecord(ale_before, ale_after, control_cost, total_cost) ==
    [ale_before |-> ale_before, ale_after |-> ale_after,
     control_cost |-> control_cost, total_cost |-> total_cost,
     rosi |-> calculate_rosi(ale_before, ale_after, total_cost)]

\* A pass of the loop that computes ale_before of every year from the year's own
\* EF and ARO samples
AppendYearFromBaseline(earlierYears, scn, state, costs, permutation, i, year) ==
    Append(earlierYears,
           YearRecord(calculate_ale(scn.asset_value, ef_samples(scn, state, i, year),
                                    aro_samples(scn, state, i, year)),
                      calculate_ale(scn.asset_value, ef_samples(scn, state, i, year),
                                    RMul(aro_samples(scn, state, i, year),
                                         RSub(R(1), scn.control_reductions[permutation[year + 1]]))),
                      costs[year + 2][permutation[year + 1]].cost,
                      TotalCost(costs, permutation, year)))

\* One pass of the loop over the years.  ale_before is computed for year 0 and
\* is the previous year's ale_after later; ale_after is computed from the
\* year's own ARO sample, reduced by the year's control
AppendYear(earlierYears, scn, state, costs, permutation, i, year) ==
    Append(earlierYears,
           YearRecord(IF year = 0
                      THEN calculate_ale(scn.asset_value, ef_samples(scn, state, i, year),
                                         aro_samples(scn, state, i, year))
                      ELSE earlierYears[year].ale_after,
                      calculate_ale(scn.asset_value, ef_samples(scn, state, i, year),
                                    RMul(aro_samples(scn, state, i, year),
                                         RSub(R(1), scn.control_reductions[permutation[year + 1]]))),
                      costs[year + 2][permutation[year + 1]].cost,
                      TotalCost(costs, permutation, year)))

\* The year records of sample i for years 0..year (0-based), as the loop builds them
RECURSIVE YearRecords(_, _, _, _, _, _)
YearRecords(scn, state, costs, permutation, i, year) ==
    AppendYear(IF year = 0 THEN <<>> ELSE YearRecords(scn, state, costs, permutation, i, year - 1),
               scn, state, costs, permutation, i, year)

\* results["total_rosi"] of sample i: np.sum(rosi_per_year)
SampleTotalRosi(years) == RSum(Column(years, "rosi"))

\* A dictionary whose total_rosi is the total of the last sample alone
PermutationResultOfLastSample(permutation, perSample) ==
    [permutation |-> permutation,
     total_rosi |-> SampleTotalRosi(perSample[Len(perSample)]),
     years |-> perSample[Len(perSample)]]

\* The dictionary returned, given the year records of every sample: `results` is rebuilt for every sample, so the year
\* records returned are those of the last sample; total_rosi is then overwritten
\* with the mean over all samples
PermutationResult(permutation, perSample) ==
    [permutation |-> permutation,
     total_rosi |-> RMean(Tup([i \in 1..Len(perSample) |-> SampleTotalRosi(perSample[i])])),
     years |-> perSample[Len(perSample)]]

calculate_statistics_for_permutation_per_year(scn, state, costs, permutation, num_of_simulations) ==
    PermutationResult(permutation,
        Tup([i \in 1..num_of_simulations |->
            YearRecords(scn, state, costs, permutation, i - 1, Len(permutation) - 1)]))

(***************************************************************************)
(* itertools.permutations(range(1, n + 1)): every ordering, lexicographic. *)
(***************************************************************************)
Without(s, k) == Tup([j \in 1..(Len(s) - 1) |-> IF j < k THEN s[j] ELSE s[j + 1]])

RECURSIVE Concat(_)
Concat(ss) == IF ss = <<>> THEN <<>> ELSE ss[1] \o Concat(Tail(ss))

Prepend(x, seqs) == Tup([j \in 1..Len(seqs) |-> <<x>> \o seqs[j]])

RECURSIVE PermutationsOf(_)
PermutationsOf(items) ==
    IF items = <<>> THEN << <<>> >>
    ELSE Concat(Tup([k \in 1..Len(items) |->
                    Prepend(items[k], PermutationsOf(Without(items, k)))]))

\* An enumeration that yields the identity ordering only
identity_permutation(num_years) == << Tup([k \in 1..num_years |-> k]) >>

all_permutations(num_years) == PermutationsOf(Tup([k \in 1..num_years |-> k]))

(***************************************************************************)
(* sorted(items, key=..., reverse=...) as CPython's list.sort runs it on a *)
(* short list of [key, item] pairs: with reverse the list is reversed, the *)
(* leading run is found (a strictly descending one is reversed), the rest  *)
(* is inserted by binary insertion using only key(x) < key(y), and with    *)
(* reverse the list is reversed again.                                     *)
(***************************************************************************)
Reverse(s) == Tup([k \in 1..Len(s) |-> s[Len(s) + 1 - k]])

KeyLt(x, y) == RLt(x.key, y.key)

RECURSIVE RunEnd(_, _, _)
RunEnd(a, n, descending) ==
    IF n >= Len(a) THEN n
    ELSE IF descending
         THEN (IF KeyLt(a[n + 1], a[n]) THEN RunEnd(a, n + 1, descending) ELSE n)
         ELSE (IF KeyLt(a[n + 1], a[n]) THEN n ELSE RunEnd(a, n + 1, descending))

RECURSIVE BinarySearch(_, _, _, _)
BinarySearch(a, pivot, l, r) ==
    IF l >= r THEN l
    ELSE IF KeyLt(pivot, a[l + ((r - l) \div 2) + 1])
         THEN BinarySearch(a, pivot, l, l + ((r - l) \div 2))
         ELSE BinarySearch(a, pivot, l + ((r - l) \div 2) + 1, r)

InsertAt(a, pos, start) ==
    Tup([k \in 1..Len(a) |->
        IF k <= pos THEN a[k]
        ELSE IF k = pos + 1 THEN a[start + 1]
        ELSE IF k <= start + 1 THEN a[k - 1]
        ELSE a[k]])

RECURSIVE BinarySort(_, _)
BinarySort(a, start) ==
    IF start >= Len(a) THEN a
    ELSE BinarySort(InsertAt(a, BinarySearch(a, a[start + 1], 0, start), start), start + 1)

\* The leading run of n elements made ascending (reversed when it descends),
\* the rest inserted
SortRun(a, descending, n) ==
    BinarySort(IF descending
               THEN Tup([k \in 1..Len(a) |-> IF k <= n THEN a[n + 1 - k] ELSE a[k]])
               ELSE a,
               n)

SortAscending(a) ==
    IF Len(a) < 2 THEN a
    ELSE SortRun(a, KeyLt(a[2], a[1]), RunEnd(a, 2, KeyLt(a[2], a[1])))

\* The [key, item] pairs of a list of records sorted on a field
Keyed(records, field) ==
    Tup([k \in 1..Len(records) |-> [key |-> records[k][field], item |-> records[k]]])

\* sorted(a, key, reverse=True)
SortedDescending(a) == Column(Reverse(SortAscending(Reverse(a))), "item")

\* sorted(a, key, reverse=False)
SortedAscending(a) == Column(SortAscending(a), "item")

(***************************************************************************)
(* Sensitivity Analyzer, sequencing mode.  SALib's sample returns          *)
(* num_samples * (D + 2) rows scaled to the bounds of the problem; its     *)
(* analyze is a function of the problem and of Y whose values the model    *)
(* keeps symbolic: the index named kind of parameter i over output Y.      *)
(***************************************************************************)
SobolIndex(kind, i, Y) == <<kind, i, Y>>

\* The indices analyze reports for parameter i
SobolIndices(i, Y) ==
    [S1 |-> SobolIndex("S1", i, Y), S1_conf |-> SobolIndex("S1_conf", i, Y),
     ST |-> SobolIndex("ST", i, Y), ST_conf |-> SobolIndex("ST_conf", i, Y)]

SobolAnalyze(names, Y) ==
    [n \in {names[k] : k \in 1..Len(names)} |-> SobolIndices(IndexOf(names, n), Y)]

\* An empty dictionary
EmptyDict == <<>>

\* param_values[r][c]: row r, parameter c (both 0-based) of the problem with these bounds
ParamValue(bounds, r, c) == Rescale(Uniform(SobolSample(RANDOM_SEED, r, c)), bounds[c + 1])

SensitivityRows(num_samples, D) == num_samples * (D + 2)

\* problem_dict as the sequence of <<name, range>> of the parameters that vary
SeqProblem(scn) ==
    (IF scn.ef_range[1] # scn.ef_range[2] THEN << <<"EF", scn.ef_range>> >> ELSE <<>>)
    \o (IF scn.aro_range[1] # scn.aro_range[2] THEN << <<"ARO", scn.aro_range>> >> ELSE <<>>)
    \o (IF scn.cost_adjustment_range[1] # scn.cost_adjustment_range[2]
        THEN << <<"cost_variance", scn.cost_adjustment_range>> >> ELSE <<>>)

ProblemNames(problem) == Tup([k \in 1..Len(problem) |-> problem[k][1]])
ProblemBounds(problem) == Tup([k \in 1..Len(problem) |-> problem[k][2]])

HasName(problem, name) == \E k \in 1..Len(problem) : problem[k][1] = name

\* params[name]: the row's value of a parameter of the problem
ProblemParam(problem, name, r) ==
    ParamValue(ProblemBounds(problem), r, IndexOf(ProblemNames(problem), name) - 1)

\* fixed_values.get(name, param_values.get(name))
SeqParam(problem, name, fixed, r) ==
    IF HasName(problem, name) THEN ProblemParam(problem, name, r) ELSE fixed

\* calculate_rosi(ale, ale * (1 - control_reductions[0]), adjusted_cost)
SingleStepRosi(ale, reduction, adjusted_cost) ==
    calculate_rosi(ale, RMul(ale, RSub(R(1), reduction)), adjusted_cost)

\* A row of evaluate_model that evaluates the last control of the lists
SeqEvaluateRowOfLastControl(scn, problem, r) ==
    SingleStepRosi(
        calculate_ale(scn.asset_value,
                      SeqParam(problem, "EF", scn.ef_range[1], r),
                      SeqParam(problem, "ARO", scn.aro_range[1], r)),
        scn.control_reductions[Len(scn.control_reductions)],
        RMul(scn.control_costs[Len(scn.control_costs)],
             RAdd(R(1), SeqParam(problem, "cost_variance", scn.cost_adjustment_range[1], r))))

\* One row of evaluate_model: the single-step ROSI of the first control
SeqEvaluateRow(scn, problem, r) ==
    SingleStepRosi(
        calculate_ale(scn.asset_value,
                      SeqParam(problem, "EF", scn.ef_range[1], r),
                      SeqParam(problem, "ARO", scn.aro_range[1], r)),
        scn.control_reductions[1],
        RMul(scn.control_costs[1],
             RAdd(R(1), SeqParam(problem, "cost_variance", scn.cost_adjustment_range[1], r))))

SeqPerformSensitivityAnalysis(scn, num_samples) ==
    IF SeqProblem(scn) = <<>> THEN EmptyDict
    ELSE SobolAnalyze(ProblemNames(SeqProblem(scn)),
                      Tup([r \in 1..SensitivityRows(num_samples, Len(SeqProblem(scn))) |->
                          SeqEvaluateRow(scn, SeqProblem(scn), r - 1)]))

(***************************************************************************)
(* simulate_control_sequence_optimization, up to the returned object.      *)
(* state is numpy's global generator state after np.random.seed.           *)
(***************************************************************************)
\* simulate_all_permutations
SimulateAllPermutations(scn, state, costs, permutations) ==
    Tup([k \in 1..Len(permutations) |->
        calculate_statistics_for_permutation_per_year(scn, state, costs, permutations[k],
                                                      scn.num_samples)])

\* sorted_permutations
RankedPermutations(scn, state, costs) ==
    SortedDescending(Keyed(SimulateAllPermutations(scn, state, costs,
                                                   all_permutations(scn.num_years)),
                           "total_rosi"))

\* exported_results
ExportedResults(scn, control_cost_values, sorted_permutations, sensitivity) ==
    [simulation_parameters |-> scn,
     results |-> [best_permutation |-> sorted_permutations[1].permutation,
                  best_rosi |-> sorted_permutations[1].total_rosi,
                  control_cost_values |-> control_cost_values],
     ranked_permutations |-> sorted_permutations,
     sensitivity_results |-> sensitivity]

\* The steps after the cost schedule has been computed
SequenceResultFrom(scn, state, costs) ==
    ExportedResults(scn, costs, RankedPermutations(scn, state, costs),
                    SeqPerformSensitivityAnalysis(scn, NUM_SAMPLES))

SequenceResult(scn, state) ==
    SequenceResultFrom(scn, state, calculate_compounding_costs(scn, state, NUM_SAMPLES))

(***************************************************************************)
(* Vendor mode: the sample slices.  A scenario has the arguments of        *)
(* simulate_vendor_assessment_decision: asset_value, ef_range, aro_range,  *)
(* control_costs, control_reduction_ranges, num_vendors, num_samples.      *)
(***************************************************************************)
\* cost_adj[j]: whether reduction range j (1-based here) is a fixed value
VendorReductionFixed(scn, j) == IsFixed(scn.control_reduction_ranges[j])

VaryingReductions(scn) ==
    {j \in 1..Len(scn.control_reduction_ranges) : ~VendorReductionFixed(scn, j)}

\* Columns of the EF block, the ARO block and the CONTROL_E block
VendorEfColumns(scn) == IF IsFixed(scn.ef_range) THEN 0 ELSE scn.num_vendors
VendorAroColumns(scn) == IF IsFixed(scn.aro_range) THEN 0 ELSE scn.num_vendors

\* The column read for control_reduction_slices[j][:, i] (i 0-based, j 1-based):
\* the loops run over i, then over the ranges j, counting only those that vary
VendorReductionColumn(scn, i, j) ==
    VendorEfColumns(scn) + VendorAroColumns(scn)
    + i * Cardinality(VaryingReductions(scn))
    + Cardinality({q \in VaryingReductions(scn) : q < j})

VendorParamCount(scn) ==
    VendorEfColumns(scn) + VendorAroColumns(scn)
    + scn.num_vendors * Cardinality(VaryingReductions(scn))

VendorColumnsRead(scn) == Tup([k \in 1..VendorParamCount(scn) |-> k - 1])

VendorEfSample(scn, state, r, i) ==
    simulate_exposure_factor_sobol(
        IF IsFixed(scn.ef_range) THEN scn.ef_range[1] ELSE SobolCombined(state, r, i),
        scn.ef_range)

VendorAroSample(scn, state, r, i) ==
    simulate_annual_rate_of_occurrence_sobol(
        IF IsFixed(scn.aro_range) THEN scn.aro_range[1]
        ELSE SobolCombined(state, r, VendorEfColumns(scn) + i),
        scn.aro_range)

\* control_reduction_samples[r][v]: from column 0 of the slice of range v
\* (control_reduction_slices[v][r, 0]), clipped to the range
control_reduction_samples(scn, state, r, v) ==
    RClip(simulate_control_effectiveness_sobol(
              IF VendorReductionFixed(scn, v) THEN scn.control_reduction_ranges[v][1]
              ELSE SobolCombined(state, r, VendorReductionColumn(scn, 0, v)),
              scn.control_reduction_ranges[v]),
          scn.control_reduction_ranges[v][1], scn.control_reduction_ranges[v][2])

(***************************************************************************)
(* Vendor Statistics Aggregator.  Of the distributional summary the model  *)
(* keeps the means, which are what the two rankings read; the median, the  *)
(* mode, the standard deviation and the percentiles are not modelled.      *)
(***************************************************************************)
\* What the loop appends for one sample
SampleRecord(ale_before, ale_after, cost, control_reduction_sample) ==
    [ale_before |-> ale_before, ale_after |-> ale_after,
     rosi |-> calculate_rosi(ale_before, ale_after, cost),
     control_reduction |-> control_reduction_sample]

\* The body of the loop over the samples, given the three samples of the row
VendorSampleOf(asset_value, ef_sample, aro_sample, control_reduction_sample, cost) ==
    SampleRecord(calculate_ale(asset_value, ef_sample, aro_sample),
                 calculate_ale(asset_value, ef_sample,
                               RMul(aro_sample, RSub(R(1), control_reduction_sample))),
                 cost, control_reduction_sample)

\* A loop body that reads the effectiveness draw and the cost of the first
\* vendor for every vendor
VendorSampleOfFirstVendor(scn, state, vendor, sample) ==
    VendorSampleOf(scn.asset_value,
                   VendorEfSample(scn, state, sample, vendor - 1),
                   VendorAroSample(scn, state, sample, vendor - 1),
                   control_reduction_samples(scn, state, sample, 1),
                   scn.control_costs[1])

VendorSample(scn, state, vendor, sample) ==
    VendorSampleOf(scn.asset_value,
                   VendorEfSample(scn, state, sample, vendor - 1),
                   VendorAroSample(scn, state, sample, vendor - 1),
                   control_reduction_samples(scn, state, sample, vendor),
                   scn.control_costs[vendor])

\* The entry of vendor_statistics, given the means over the samples
VendorStatOf(scn, vendor, mean_ale_before, mean_ale_after, mean_rosi) ==
    [vendor_id |-> vendor,
     control_cost |-> scn.control_costs[vendor],
     control_reduction_ranges |-> scn.control_reduction_ranges[vendor],
     mean_ale_before |-> mean_ale_before,
     mean_ale_after |-> mean_ale_after,
     mean_ale_reduction |-> RDiv(RSub(mean_ale_before, mean_ale_after), mean_ale_before),
     mean_rosi |-> mean_rosi]

\* The means of the samples of one vendor
VendorMeans(scn, vendor, samples) ==
    VendorStatOf(scn, vendor, RMean(Column(samples, "ale_before")),
                 RMean(Column(samples, "ale_after")), RMean(Column(samples, "rosi")))

VendorStat(scn, state, vendor) ==
    VendorMeans(scn, vendor,
                Tup([i \in 1..scn.num_samples |-> VendorSample(scn, state, vendor, i - 1)]))

VendorStatistics(scn, state) ==
    Tup([v \in 1..scn.num_vendors |-> VendorStat(scn, state, v)])

\* sorted(vendor_statistics, key=mean_rosi, reverse=True), the ids
BestVendor(stats) == Column(SortedDescending(Keyed(stats, "mean_rosi")), "vendor_id")

\* A ranking by effectiveness that reads the cost-dependent mean ROSI instead
MostEffectiveByRosi(stats) == BestVendor(stats)

\* sorted(vendor_statistics, key=mean_ale_after, reverse=False), the ids
MostEffectiveVendor(stats) ==
    Column(SortedAscending(Keyed(stats, "mean_ale_after")), "vendor_id")

(***************************************************************************)
(* Sensitivity Analyzer, vendor mode.                                      *)
(***************************************************************************)
VendorReductionName(j) ==
    CASE j = 1 -> "control_reduction_1"
      [] j = 2 -> "control_reduction_2"
      [] j = 3 -> "control_reduction_3"
      [] j = 4 -> "control_reduction_4"

VendorProblem(scn) ==
    (IF scn.ef_range[1] # scn.ef_range[2] THEN << <<"EF", scn.ef_range>> >> ELSE <<>>)
    \o (IF scn.aro_range[1] # scn.aro_range[2] THEN << <<"ARO", scn.aro_range>> >> ELSE <<>>)
    \o Concat(Tup([j \in 1..Len(scn.control_reduction_ranges) |->
            IF scn.control_reduction_ranges[j][1] # scn.control_reduction_ranges[j][2]
            THEN << <<VendorReductionName(j), scn.control_reduction_ranges[j]>> >>
            ELSE <<>>]))

\* params["EF"] and params["ARO"] are read from the row alone (fixed_values is
\* built but not passed to evaluate_model): a KeyError when either is fixed
VendorEvaluateRaises(problem) == ~HasName(problem, "EF") \/ ~HasName(problem, "ARO")

\* The loop `ale_after *= 1 - params[name]` over the first k parameters of the
\* problem, those named control_reduction_..: the factor ale_before is multiplied by
RECURSIVE ReductionFactor(_, _, _)
ReductionFactor(problem, r, k) ==
    IF k = 0 THEN R(1)
    ELSE RMul(ReductionFactor(problem, r, k - 1),
              IF problem[k][1] \in {"EF", "ARO"} THEN R(1)
              ELSE RSub(R(1), ParamValue(ProblemBounds(problem), r, k - 1)))

\* The row's output, given ale_before and the factor of the reductions:
\* calculate_rosi over the list control_costs, which numpy broadcasts
VendorRowOf(ale_before, factor, control_costs) ==
    Tup([v \in 1..Len(control_costs) |->
        calculate_rosi(ale_before, RMul(ale_before, factor), control_costs[v])])

\* One row of evaluate_model.  The cost passed to calculate_rosi is the whole
\* list control_costs: the row's output is one ROSI per cost
VendorEvaluateRow(scn, problem, r) ==
    VendorRowOf(calculate_ale(scn.asset_value, ProblemParam(problem, "EF", r),
                              ProblemParam(problem, "ARO", r)),
                ReductionFactor(problem, r, Len(problem)),
                scn.control_costs)

\* perform_sensitivity_analysis of the vendor module, given that it returns
VendorPerformSensitivityAnalysis(scn, num_samples) ==
    IF VendorProblem(scn) = <<>> THEN EmptyDict
    ELSE SobolAnalyze(ProblemNames(VendorProblem(scn)),
                      Tup([r \in 1..SensitivityRows(num_samples, Len(VendorProblem(scn))) |->
                          VendorEvaluateRow(scn, VendorProblem(scn), r - 1)]))

(***************************************************************************)
(* The two entry points as functions from the arguments and the state of   *)
(* numpy's global generator at the call to what the call does: whether it  *)
(* returned or raised, whether the sample matrix was generated, the        *)
(* columns of it that were read, the generator state left behind, and the  *)
(* object returned (output_json_response = True).                          *)
(***************************************************************************)
NoResult == [none |-> TRUE]

\* SALib's sample scales to the bounds of the problem and raises ValueError
\* ("Bounds are not legal") when a lower bound is not below its upper bound
BoundsLegal(ranges) == \A k \in 1..Len(ranges) : RLt(ranges[k][1], ranges[k][2])

\* The ranges of a list that are not fixed: the bounds of the sampling problem
Varying(ranges) == SelectSeq(ranges, LAMBDA range : ~IsFixed(range))

Returned(res, didSample, columns, state) ==
    [kind |-> "returned", error |-> "", sampled |-> didSample, columnsRead |-> columns,
     rng |-> state, result |-> res]

Raised(err, didSample, columns, state) ==
    [kind |-> "raised", error |-> err, sampled |-> didSample, columnsRead |-> columns,
     rng |-> state, result |-> NoResult]

\* The exception sampling raises, "" when it goes through or is skipped
\* because every range is fixed
SeqSamplingError(scn) ==
    IF SeqParamOrder(scn) = <<>> THEN ""
    ELSE IF ~BoundsLegal(Varying(<<scn.ef_range, scn.aro_range, scn.cost_adjustment_range>>))
    THEN "ValueError"
    ELSE ""

\* np.random.seed puts the generator in the state SeedAtEntry; sampling is
\* skipped when every range is fixed, and draws from the generator
\* (randomize_sobol_samples) when it goes through
simulate_control_sequence_optimization(scn, generator) ==
    IF SeqSamplingError(scn) # ""
    THEN Raised(SeqSamplingError(scn), TRUE, <<>>, SeedAtEntry(generator))
    ELSE Returned(SequenceResult(scn, SeedAtEntry(generator)),
                  SeqParamOrder(scn) # <<>>, SeqColumnsRead(scn),
                  IF SeqParamOrder(scn) # <<>> THEN RngAdvance(SeedAtEntry(generator))
                  ELSE SeedAtEntry(generator))

\* results, given vendor_statistics
VendorResultOf(scn, vendor_statistics, sensitivity) ==
    [input_parameters |-> scn,
     vendor_statistics |-> vendor_statistics,
     best_vendor |-> BestVendor(vendor_statistics),
     most_effective_vendor |-> MostEffectiveVendor(vendor_statistics),
     sensitivity_analysis |-> sensitivity]

VendorResult(scn, state) ==
    VendorResultOf(scn, VendorStatistics(scn, state),
                   VendorPerformSensitivityAnalysis(scn, scn.num_samples))

\* The exception the entry point raises, "" when it returns.  In the order of
\* the code: sampling (skipped when every range is fixed), then, after the
\* statistics, the sensitivity analysis.  vectorised: whether calculate_rosi
\* over the list control_costs and SALib's analyze over the resulting
\* two-dimensional Y go through in this build
VendorError(scn, vectorised) ==
    IF VendorParamCount(scn) = 0 THEN ""
    ELSE IF ~BoundsLegal(Varying(<<scn.ef_range, scn.aro_range>> \o scn.control_reduction_ranges))
    THEN "ValueError"
    ELSE IF VendorEvaluateRaises(VendorProblem(scn)) THEN "KeyError"
    ELSE IF ~vectorised THEN "ValueError"
    ELSE ""

\* Whether the sample matrix was generated and its columns copied
VendorSampled(scn) ==
    /\ VendorParamCount(scn) # 0
    /\ BoundsLegal(Varying(<<scn.ef_range, scn.aro_range>> \o scn.control_reduction_ranges))

\* np.random.seed puts the generator in the state SeedAtEntry; when the sample
\* matrix is generated its columns are copied and the generator has been drawn from
simulate_vendor_assessment_decision(scn, generator, vectorised) ==
    IF VendorError(scn, vectorised) # ""
    THEN Raised(VendorError(scn, vectorised), TRUE,
                IF VendorSampled(scn) THEN VendorColumnsRead(scn) ELSE <<>>,
                IF VendorSampled(scn) THEN RngAdvance(SeedAtEntry(generator))
                ELSE SeedAtEntry(generator))
    ELSE Returned(VendorResult(scn, SeedAtEntry(generator)), VendorSampled(scn),
                  IF VendorSampled(scn) THEN VendorColumnsRead(scn) ELSE <<>>,
                  IF VendorSampled(scn) THEN RngAdvance(SeedAtEntry(generator))
                  ELSE SeedAtEntry(generator))

(***************************************************************************)
(* The output step of both entry points.  An output option record tells    *)
(* whether output_json_response is true and whether output_json_file and   *)
(* output_png_file were supplied.  With output_json_response the object is *)
(* returned before any write; without it the JSON file is written, then    *)
(* the plot is drawn and saved, and None is returned.  Both plot functions *)
(* read problem["names"] first: a KeyError when every range is fixed and   *)
(* the sensitivity analysis returned the empty problem.                    *)
(***************************************************************************)
OutputOptions ==
    [output_json_response : BOOLEAN, output_json_file : BOOLEAN, output_png_file : BOOLEAN]

\* The options of the routes: output_json_response=True and no path
ResponseOnly ==
    [output_json_response |-> TRUE, output_json_file |-> FALSE, output_png_file |-> FALSE]

\* Python's None as a returned value
PyNone == [py |-> "None"]

\* An output step that writes to every path supplied, whatever output_json_response is
FilesWrittenForEveryPath(run, out, problem) ==
    IF run.kind # "returned" THEN {}
    ELSE (IF out.output_json_file THEN {"json"} ELSE {})
         \cup (IF out.output_png_file /\ problem # <<>> THEN {"png"} ELSE {})

\* The files the call has written when it ends
FilesWritten(run, out, problem) ==
    IF run.kind # "returned" \/ out.output_json_response THEN {}
    ELSE (IF out.output_json_file THEN {"json"} ELSE {})
         \cup (IF out.output_png_file /\ problem # <<>> THEN {"png"} ELSE {})

\* What the call does, given what the computation before the output step did
WriteOutputs(run, out, problem) ==
    [files |-> FilesWritten(run, out, problem)]
    @@ (IF run.kind # "returned" \/ out.output_json_response THEN run
        ELSE IF out.output_png_file /\ problem = <<>>
        THEN Raised("KeyError", run.sampled, run.columnsRead, run.rng)
        ELSE Returned(PyNone, run.sampled, run.columnsRead, run.rng))

(***************************************************************************)
(* The batch CSV loaders (_load_csv_data of both modules).  Of a file the  *)
(* model keeps the control columns: the header is the set of <<name, k>>   *)
(* for the columns name_k present (control_reduction_k_min and _max in     *)
(* vendor mode), a data row gives for every column of the header what      *)
(* csv.DictReader hands over: a number, the empty string, or None for a    *)
(* column the row is too short to reach.  The other columns are well       *)
(* formed.                                                                 *)
(***************************************************************************)
\* Largest control index in a CSV header
MaxCsvControls == 2

\* The columns of one control, in the order the loader reads them
CsvColumns(mode) ==
    IF mode = "sequencing" THEN <<"control_reduction", "control_cost">>
    ELSE <<"control_reduction_min", "control_reduction_max", "control_cost">>

CsvHeaders(mode) ==
    SUBSET ({CsvColumns(mode)[i] : i \in 1..Len(CsvColumns(mode))} \X (1..MaxCsvControls))

\* The data rows tried: at most one cell of a row is not a number
CsvRows(header) ==
    {row \in [header -> {"number", "empty", "none"}] :
        Cardinality({column \in header : row[column] # "number"}) <= 1}

\* control_numbers: from the columns control_reduction_k (vendor mode: those
\* not ending in _max, the _min columns)
ControlNumbers(mode, header) ==
    {k \in 1..MaxCsvControls : <<CsvColumns(mode)[1], k>> \in header}

CsvOk == [error |-> "", control |-> 0]
CsvFailure(err, k) == [error |-> err, control |-> k]

\* The first failure, or what follows when there is none
OrElse(failure, following) == IF failure.error # "" THEN failure ELSE following

\* float(row[key]): TypeError for None, ValueError (naming no control) for ""
RECURSIVE CellFailure(_, _, _, _)
CellFailure(row, columns, k, i) ==
    IF i > Len(columns) THEN CsvOk
    ELSE IF row[<<columns[i], k>>] = "none" THEN CsvFailure("TypeError", 0)
    ELSE IF row[<<columns[i], k>>] = "empty" THEN CsvFailure("ValueError", 0)
    ELSE CellFailure(row, columns, k, i + 1)

\* One control of one row: the key check, then the conversions
ControlFailure(mode, header, row, k) ==
    IF \E i \in 1..Len(CsvColumns(mode)) : <<CsvColumns(mode)[i], k>> \notin header
    THEN CsvFailure("ValueError", k)
    ELSE CellFailure(row, CsvColumns(mode), k, 1)

\* for num in control_numbers, from control k on
RECURSIVE RowFailure(_, _, _, _, _)
RowFailure(mode, header, row, numbers, k) ==
    IF k > MaxCsvControls THEN CsvOk
    ELSE IF k \notin numbers THEN RowFailure(mode, header, row, numbers, k + 1)
    ELSE OrElse(ControlFailure(mode, header, row, k),
                RowFailure(mode, header, row, numbers, k + 1))

\* for row in reader, from row i on
RECURSIVE RowsFailure(_, _, _, _, _)
RowsFailure(mode, header, rows, numbers, i) ==
    IF i > Len(rows) THEN CsvOk
    ELSE OrElse(RowFailure(mode, header, rows[i], numbers, 1),
                RowsFailure(mode, header, rows, numbers, i + 1))

\* What the call does, given the failure of its rows: the controls of every
\* risk loaded, or the exception and the control its message names (0: none)
CsvOutcome(failure, rows, numbers) ==
    [kind |-> IF failure.error = "" THEN "returned" ELSE "raised",
     status |-> 0, error |-> failure.error, engineInvoked |-> FALSE, sampled |-> FALSE,
     columnsRead |-> <<>>, files |-> {},
     result |-> IF failure.error = ""
                THEN [data |-> [i \in 1..Len(rows) |-> numbers]]
                ELSE [exception |-> failure.error, control |-> failure.control]]

load_csv_data(mode, header, rows) ==
    CsvOutcome(IF ControlNumbers(mode, header) = {} THEN CsvFailure("ValueError", 0)
               ELSE RowsFailure(mode, header, rows, ControlNumbers(mode, header), 1),
               rows, ControlNumbers(mode, header))

(***************************************************************************)
(* The scenarios enumerated.  Money is in thousands: an asset of 100000 is *)
(* R(100), a cost of 500 is Frac(1, 2).                                    *)
(***************************************************************************)
AssetValues == {R(100)}
EfRanges == {<<Frac(1, 2), Frac(1, 2)>>, <<Frac(1, 4), Frac(3, 4)>>}
AroRanges == {<<R(1), R(1)>>, <<R(1), R(2)>>}
CostAdjustmentRanges == {<<R(0), R(0)>>, <<R(0), R(1)>>, <<R(-1), R(-1)>>}
SampleCounts == {NUM_SAMPLES, NUM_SAMPLES \div 2, 2 * NUM_SAMPLES}

\* Control lists: "example" has costs 1000, 2000, .. and reductions 0.5, 0.3, ..;
\* "equal" has identical controls, so that permutations tie
SeqControlCosts(kind, n) ==
    Tup([k \in 1..n |-> IF kind = "example" THEN R(k) ELSE R(1)])

SeqControlReductions(kind, n) ==
    Tup([k \in 1..n |-> IF kind = "example" /\ k % 2 = 0 THEN Frac(3, 10) ELSE Frac(1, 2)])

SeqScenario(asset, ef, aro, adj, kind, n, samples) ==
    [asset_value |-> asset, ef_range |-> ef, aro_range |-> aro,
     control_costs |-> SeqControlCosts(kind, n), cost_adjustment_range |-> adj,
     control_reductions |-> SeqControlReductions(kind, n),
     num_years |-> n, num_samples |-> samples]

SeqScenarios ==
    {SeqScenario(asset, ef, aro, adj, kind, n, samples) :
        asset \in AssetValues, ef \in EfRanges, aro \in AroRanges,
        adj \in CostAdjustmentRanges, kind \in {"example", "equal"},
        n \in 1..MaxControls, samples \in SampleCounts}

\* Vendor lists: "example" has vendor A {5000, 0.5 fixed}, B {500, 0.3 fixed}, ..;
\* "equal" has identical vendors; "varying" is "example" with A's reduction in [0.3, 0.5]
VendorControlCosts(kind, m) ==
    Tup([k \in 1..m |-> IF kind = "equal" THEN R(1)
                        ELSE IF k % 2 = 1 THEN R(5) ELSE Frac(1, 2)])

VendorReductionRanges(kind, m) ==
    Tup([k \in 1..m |->
        IF kind = "equal" THEN <<Frac(1, 2), Frac(1, 2)>>
        ELSE IF k % 2 = 0 THEN <<Frac(3, 10), Frac(3, 10)>>
        ELSE IF kind = "varying" THEN <<Frac(3, 10), Frac(1, 2)>>
        ELSE <<Frac(1, 2), Frac(1, 2)>>])

VendorScenario(asset, ef, aro, kind, m, samples) ==
    [asset_value |-> asset, ef_range |-> ef, aro_range |-> aro,
     control_costs |-> VendorControlCosts(kind, m),
     control_reduction_ranges |-> VendorReductionRanges(kind, m),
     num_vendors |-> m, num_samples |-> samples]

VendorScenarios ==
    {VendorScenario(asset, ef, aro, kind, m, samples) :
        asset \in AssetValues, ef \in EfRanges, aro \in AroRanges,
        kind \in {"example", "equal", "varying"}, m \in 1..MaxControls, samples \in SampleCounts}

(***************************************************************************)
(* Requests to the two routes: a well-formed request, or one with a single *)
(* defect.  The routes do not pass num_samples: the engine's default runs. *)
(***************************************************************************)
SeqDefects == {"none", "asset_value", "ef_order", "aro_order", "cost_adjustment_order",
               "reduction", "cost", "length", "empty"}
VendorDefects == {"none", "asset_value", "ef_order", "aro_order", "reduction_order",
                  "reduction", "cost", "length", "empty"}

SeqRequest(scn, defect) ==
    [asset_value |-> IF defect = "asset_value" THEN R(0) ELSE scn.asset_value,
     exposure_factor_min |-> IF defect = "ef_order" THEN Frac(3, 4) ELSE scn.ef_range[1],
     exposure_factor_max |-> IF defect = "ef_order" THEN Frac(1, 4) ELSE scn.ef_range[2],
     annual_rate_of_occurrence_min |-> IF defect = "aro_order" THEN R(2) ELSE scn.aro_range[1],
     annual_rate_of_occurrence_max |-> IF defect = "aro_order" THEN R(1) ELSE scn.aro_range[2],
     cost_adjustment_min |-> IF defect = "cost_adjustment_order" THEN R(1) ELSE scn.cost_adjustment_range[1],
     cost_adjustment_max |-> IF defect = "cost_adjustment_order" THEN R(0) ELSE scn.cost_adjustment_range[2],
     control_reductions |->
        CASE defect = "reduction" -> [scn.control_reductions EXCEPT ![1] = R(1)]
          [] defect = "length" -> Append(scn.control_reductions, Frac(1, 2))
          [] defect = "empty" -> <<>>
          [] OTHER -> scn.control_reductions,
     control_costs |->
        CASE defect = "cost" -> [scn.control_costs EXCEPT ![1] = R(0)]
          [] defect = "empty" -> <<>>
          [] OTHER -> scn.control_costs,
     defect |-> defect]

SeqRequests ==
    {SeqRequest(scn, defect) : scn \in {x \in SeqScenarios : x.num_samples = NUM_SAMPLES},
                               defect \in SeqDefects}

VendorRequest(scn, defect) ==
    LET mins == Tup([k \in 1..scn.num_vendors |-> scn.control_reduction_ranges[k][1]])
        maxs == Tup([k \in 1..scn.num_vendors |-> scn.control_reduction_ranges[k][2]])
    IN  [asset_value |-> IF defect = "asset_value" THEN R(0) ELSE scn.asset_value,
         exposure_factor_min |-> IF defect = "ef_order" THEN Frac(3, 4) ELSE scn.ef_range[1],
         exposure_factor_max |-> IF defect = "ef_order" THEN Frac(1, 4) ELSE scn.ef_range[2],
         annual_rate_of_occurrence_min |-> IF defect = "aro_order" THEN R(2) ELSE scn.aro_range[1],
         annual_rate_of_occurrence_max |-> IF defect = "aro_order" THEN R(1) ELSE scn.aro_range[2],
         control_costs |->
            CASE defect = "cost" -> [scn.control_costs EXCEPT ![1] = R(0)]
              [] defect = "empty" -> <<>>
              [] OTHER -> scn.control_costs,
         control_reduction_mins |->
            CASE defect = "reduction_order" -> [mins EXCEPT ![1] = Frac(1, 2)]
              [] defect = "length" -> Append(mins, Frac(3, 10))
              [] defect = "empty" -> <<>>
              [] OTHER -> mins,
         control_reduction_maxs |->
            CASE defect = "reduction_order" -> [maxs EXCEPT ![1] = Frac(3, 10)]
              [] defect = "reduction" -> [maxs EXCEPT ![1] = R(1)]
              [] defect = "empty" -> <<>>
              [] OTHER -> maxs,
         defect |-> defect]

VendorRequests ==
    {VendorRequest(scn, defect) : scn \in {x \in VendorScenarios : x.num_samples = NUM_SAMPLES},
                                  defect \in VendorDefects}

(***************************************************************************)
(* The route handlers.  FastAPI checks the Query constraints first and     *)
(* answers 422 (endpoint.py); a ValueError raised by the handler's own     *)
(* checks, like any exception of the engine, is caught and answered 500.   *)
(***************************************************************************)
InUnit(x) == RGe(x, R(0)) /\ RLe(x, R(1))

SeqQueryValid(req) ==
    /\ RGt(req.asset_value, R(0))
    /\ InUnit(req.exposure_factor_min) /\ InUnit(req.exposure_factor_max)
    /\ RGt(req.annual_rate_of_occurrence_min, R(0))
    /\ RGt(req.annual_rate_of_occurrence_max, R(0))
    /\ RGe(req.cost_adjustment_min, R(-1)) /\ RLe(req.cost_adjustment_min, R(1))
    /\ RGe(req.cost_adjustment_max, R(-1)) /\ RLe(req.cost_adjustment_max, R(1))
    /\ req.control_reductions # <<>>
    /\ req.control_costs # <<>>

\* The handler's checks, in order: the message of the first that fails, or ""
SeqHandlerError(req) ==
    IF Len(req.control_reductions) # Len(req.control_costs)
    THEN "Control reductions and costs lists must have the same length"
    ELSE IF req.control_reductions = <<>>
    THEN "At least one control must be provided"
    ELSE IF \E k \in 1..Len(req.control_reductions) :
                ~(RLe(R(0), req.control_reductions[k]) /\ RLe(req.control_reductions[k], Frac(99, 100)))
    THEN "Control reductions must be between 0 and 0.99"
    ELSE IF \E k \in 1..Len(req.control_costs) : RLe(req.control_costs[k], R(0))
    THEN "Control costs must be greater than 0"
    ELSE ""

SeqArguments(req) ==
    [asset_value |-> req.asset_value,
     ef_range |-> <<req.exposure_factor_min, req.exposure_factor_max>>,
     aro_range |-> <<req.annual_rate_of_occurrence_min, req.annual_rate_of_occurrence_max>>,
     control_costs |-> req.control_costs,
     cost_adjustment_range |-> <<req.cost_adjustment_min, req.cost_adjustment_max>>,
     control_reductions |-> req.control_reductions,
     num_years |-> Len(req.control_costs),
     num_samples |-> NUM_SAMPLES]

Rejected(code, kind, detail, generator) ==
    [kind |-> kind, status |-> code, error |-> detail, engineInvoked |-> FALSE,
     sampled |-> FALSE, columnsRead |-> <<>>, rng |-> generator, result |-> NoResult,
     files |-> {}]

\* The response to a request whose checks passed, from what the engine did
Answered(run) ==
    [kind |-> IF run.kind = "returned" THEN "returned" ELSE "runtime_error",
     status |-> IF run.kind = "returned" THEN 200 ELSE 500,
     error |-> run.error, engineInvoked |-> TRUE, sampled |-> run.sampled,
     columnsRead |-> run.columnsRead, rng |-> run.rng, result |-> run.result,
     files |-> run.files]

get_rqmc_control_sequence_analysis(req, generator) ==
    IF ~SeqQueryValid(req)
    THEN Rejected(422, "validation_error", "RequestValidationError", generator)
    ELSE IF SeqHandlerError(req) # ""
    THEN Rejected(500, "validation_error", SeqHandlerError(req), generator)
    ELSE Answered(WriteOutputs(simulate_control_sequence_optimization(SeqArguments(req), generator),
                               ResponseOnly, SeqProblem(SeqArguments(req))))

VendorQueryValid(req) ==
    /\ RGt(req.asset_value, R(0))
    /\ InUnit(req.exposure_factor_min) /\ InUnit(req.exposure_factor_max)
    /\ RGt(req.annual_rate_of_occurrence_min, R(0))
    /\ RGt(req.annual_rate_of_occurrence_max, R(0))
    /\ req.control_costs # <<>>
    /\ req.control_reduction_mins # <<>>
    /\ req.control_reduction_maxs # <<>>

VendorHandlerError(req) ==
    IF ~(Len(req.control_costs) = Len(req.control_reduction_mins)
         /\ Len(req.control_reduction_mins) = Len(req.control_reduction_maxs))
    THEN "Control costs and reduction lists must have the same length"
    ELSE IF req.control_costs = <<>>
    THEN "At least one control must be provided"
    ELSE IF RGt(req.exposure_factor_min, req.exposure_factor_max)
    THEN "Exposure factor minimum must be less than or equal to maximum"
    ELSE IF RGt(req.annual_rate_of_occurrence_min, req.annual_rate_of_occurrence_max)
    THEN "Annual rate of occurrence minimum must be less than or equal to maximum"
    ELSE IF \E k \in 1..Len(req.control_reduction_mins) :
                ~(/\ RLe(R(0), req.control_reduction_mins[k])
                  /\ RLe(req.control_reduction_mins[k], req.control_reduction_maxs[k])
                  /\ RLe(req.control_reduction_maxs[k], Frac(99, 100)))
    THEN "Control reduction range invalid"
    ELSE IF \E k \in 1..Len(req.control_costs) : RLe(req.control_costs[k], R(0))
    THEN "Control cost must be greater than 0"
    ELSE ""

VendorArguments(req) ==
    [asset_value |-> req.asset_value,
     ef_range |-> <<req.exposure_factor_min, req.exposure_factor_max>>,
     aro_range |-> <<req.annual_rate_of_occurrence_min, req.annual_rate_of_occurrence_max>>,
     control_costs |-> req.control_costs,
     control_reduction_ranges |->
        Tup([k \in 1..Len(req.control_reduction_mins) |->
                <<req.control_reduction_mins[k], req.control_reduction_maxs[k]>>]),
     num_vendors |-> Len(req.control_costs),
     num_samples |-> NUM_SAMPLES]

get_rqmc_vendor_assessment(req, generator, vectorised) ==
    IF ~VendorQueryValid(req)
    THEN Rejected(422, "validation_error", "RequestValidationError", generator)
    ELSE IF VendorHandlerError(req) # ""
    THEN Rejected(500, "validation_error", VendorHandlerError(req), generator)
    ELSE Answered(WriteOutputs(simulate_vendor_assessment_decision(VendorArguments(req), generator,
                                                                   vectorised),
                               ResponseOnly, VendorProblem(VendorArguments(req))))

\* A call of an entry point from Python code, with its own num_samples
Called(run) ==
    [kind |-> run.kind, status |-> 0, error |-> run.error, engineInvoked |-> TRUE,
     sampled |-> run.sampled, columnsRead |-> run.columnsRead, rng |-> run.rng,
     result |-> run.result, files |-> run.files]

(***************************************************************************)
(* Document loading (routes/user_document.py).  populate_loaded_documents  *)
(* is called when the module is imported.  executor.map submits one task   *)
(* per file, in the order of the list, to a pool whose threads take the    *)
(* tasks from a FIFO queue; the calling thread then reads the results in   *)
(* the order of the list, waiting for each, and fills the dictionary.      *)
(***************************************************************************)
MaxFiles == 3

\* max_workers is 5 in the source; it is scaled so that, with MaxFiles files,
\* tasks also wait in the queue while every thread of the pool is busy
max_workers == 2

\* What yaml.safe_load finds in a file: a document (a title with some trailing
\* newlines stands for its strings), nothing (an empty file), or a YAML error
YamlDocuments == {[title |-> "A", trailing_newlines |-> 1], [title |-> "B", trailing_newlines |-> 0]}
YamlFiles ==
    {[stem |-> stem, yaml |-> yaml] :
        stem \in {"policy", "procedure"},
        yaml \in {[error |-> "YAMLError"], PyNone} \cup YamlDocuments}

\* glob's list: files in some order
DocumentDirectories == UNION {[1..n -> YamlFiles] : n \in 0..MaxFiles}

\* transform_data: strings lose their trailing newlines, anything else is returned as it is
transform_data(data) ==
    IF "title" \in DOMAIN data THEN [data EXCEPT !.trailing_newlines = 0] ELSE data

\* read_yaml_file: None on a YAMLError, the transformed content otherwise
read_yaml_file(input_file) ==
    IF "error" \in DOMAIN input_file.yaml THEN PyNone ELSE transform_data(input_file.yaml)

\* document_tupleize: None when read_yaml_file returned None, else (name, content)
document_tupleize(input_file) ==
    IF read_yaml_file(input_file) = PyNone THEN PyNone
    ELSE [document_name |-> input_file.stem, document_content |-> read_yaml_file(input_file)]

NotDone == [future |-> "pending"]
NoDocuments == [name \in {} |-> PyNone]

\* loaded_documents[document_name] = content
DictSet(dict, key, value) ==
    [name \in DOMAIN dict \cup {key} |-> IF name = key THEN value ELSE dict[name]]

LoaderIdle ==
    [pc |-> "idle", document_names |-> <<>>, taken |-> 0,
     workers |-> [w \in 1..max_workers |-> 0], futures |-> <<>>, next |-> 1,
     loaded_documents |-> NoDocuments, writes |-> <<>>]

\* The task a worker finished that also stores its result in the shared dictionary
WorkerDoneWritingDictionary(ld, w) ==
    [ld EXCEPT !.futures[ld.workers[w]] = document_tupleize(ld.document_names[ld.workers[w]]),
               !.workers[w] = 0,
               !.loaded_documents =
                   IF document_tupleize(ld.document_names[ld.workers[w]]) = PyNone THEN @
                   ELSE DictSet(@, document_tupleize(ld.document_names[ld.workers[w]]).document_name,
                                document_tupleize(ld.document_names[ld.workers[w]]).document_content),
               !.writes =
                   IF document_tupleize(ld.document_names[ld.workers[w]]) = PyNone THEN @
                   ELSE Append(@, <<"worker", ld.workers[w]>>)]

\* A worker finishes its task: the future gets the value document_tupleize returned
WorkerDone(ld, w) ==
    [ld EXCEPT !.futures[ld.workers[w]] = document_tupleize(ld.document_names[ld.workers[w]]),
               !.workers[w] = 0]

\* The body of `for result in results`, for the result of file ld.next
MergeResult(ld) ==
    IF ld.futures[ld.next] = PyNone THEN [ld EXCEPT !.next = @ + 1]
    ELSE [ld EXCEPT !.next = @ + 1,
                    !.loaded_documents = DictSet(@, ld.futures[ld.next].document_name,
                                                 ld.futures[ld.next].document_content),
                    !.writes = Append(@, <<"caller", ld.next>>)]

(***************************************************************************)
(* Audit routes (routes/user_audit.py).  VALID_DOCSITE_API_TOKEN is read   *)
(* from the environment when the module is imported; every route of the    *)
(* router depends on verify_api_key, which FastAPI runs before the route's *)
(* own parameters are validated and before the handler.  A header or a     *)
(* token is None or a string.                                              *)
(***************************************************************************)
Str(value) == [py |-> "str", value |-> value]

\* os.getenv: None when the variable is not set
ApiTokens == {PyNone, Str(""), Str("secret"), Str("other")}

\* The X-API-Key header of a request: Header(None) is None when it is absent
ApiKeys == {PyNone, Str(""), Str("secret"), Str("other"), Str("SECRET")}

\* What the handler of a route can do once it runs: return, or raise one of
\* the exceptions handle_errors maps to a status
HandlerOutcomes(route) ==
    IF route = "/xdr" THEN {"returned"}
    ELSE {"returned", "ValueError", "ConnectionRefusedError", "RuntimeError"}

\* The query parameters of a route that are valid: filtered is the text of the
\* query parameter, which must parse as a bool
QueryValid(route, filtered) == route = "/xdr" \/ filtered \in {"true", "false"}

AuditRequests ==
    {[route |-> route, x_api_key |-> key, filtered |-> filtered, handler |-> does] :
        route \in {"/xdr"}, key \in ApiKeys, filtered \in {"true"}, does \in HandlerOutcomes("/xdr")}
    \cup {[route |-> route, x_api_key |-> key, filtered |-> filtered, handler |-> does] :
             route \in {"/xdr/generic-route"}, key \in ApiKeys,
             filtered \in {"true", "false", "maybe"}, does \in HandlerOutcomes("/xdr/generic-route")}

\* A verify_api_key that only requires the header to be present
verify_api_key_present(x_api_key, token) == x_api_key # PyNone

\* verify_api_key: whether it returns the key (it raises HTTPException 403 otherwise)
verify_api_key(x_api_key, token) == ~(x_api_key = PyNone \/ x_api_key # token)

\* handle_errors: the status of what the handler did
handle_errors(does) ==
    CASE does = "returned" -> 200
      [] does = "ValueError" -> 400
      [] does = "ConnectionRefusedError" -> 403
      [] OTHER -> 500

\* The answer to a request: the dependency, then the validation of the query,
\* then the handler under handle_errors
AuditAnswer(req, token) ==
    IF ~verify_api_key(req.x_api_key, token)
    THEN [status |-> 403, handler_executed |-> FALSE]
    ELSE IF ~QueryValid(req.route, req.filtered)
    THEN [status |-> 422, handler_executed |-> FALSE]
    ELSE [status |-> handle_errors(req.handler), handler_executed |-> TRUE]

NoRequest == [route |-> "none"]
NoAnswer == [status |-> 0, handler_executed |-> FALSE]

AuditUnloaded ==
    [pc |-> "unloaded", VALID_DOCSITE_API_TOKEN |-> PyNone, request |-> NoRequest, answer |-> NoAnswer]

(***************************************************************************)
(* The state machine.  One call runs at a time (the engine is synchronous):*)
(* a call action runs a whole entry point or handler from the idle state,  *)
(* Respond hands its outcome to the caller and the process is idle again.  *)
(***************************************************************************)
Idle == [pc |-> "idle"]
NoOutcome == [kind |-> "none", status |-> 0, error |-> ""]
NoEarlier == [entry |-> "none"]

Init ==
    /\ rng \in RANDOM_SEED..(RANDOM_SEED + RngPeriod - 1)
    /\ sobolTable \in GridPoints
    /\ vectorRosi \in BOOLEAN
    /\ call = Idle
    /\ outcome = NoOutcome
    /\ sampled = FALSE
    /\ engineInvoked = FALSE
    /\ columnsRead = <<>>
    /\ result = NoResult
    /\ earlier = NoEarlier
    /\ files = {}
    /\ loader = LoaderIdle
    /\ audit = AuditUnloaded

Finish(entry, args, effect) ==
    /\ call' = [pc |-> "done", entry |-> entry, args |-> args]
    /\ outcome' = [kind |-> effect.kind, status |-> effect.status, error |-> effect.error]
    /\ sampled' = effect.sampled
    /\ engineInvoked' = effect.engineInvoked
    /\ columnsRead' = effect.columnsRead
    /\ result' = effect.result
    /\ rng' = effect.rng
    /\ files' = effect.files
    /\ UNCHANGED <<sobolTable, vectorRosi, earlier, loader, audit>>

SimulateControlSequenceOptimization(scn) ==
    /\ call = Idle
    /\ Finish("simulate_control_sequence_optimization", scn,
              Called(WriteOutputs(simulate_control_sequence_optimization(scn, rng),
                                  ResponseOnly, SeqProblem(scn))))

SimulateVendorAssessmentDecision(scn) ==
    /\ call = Idle
    /\ Finish("simulate_vendor_assessment_decision", scn,
              Called(WriteOutputs(simulate_vendor_assessment_decision(scn, rng, vectorRosi),
                                  ResponseOnly, VendorProblem(scn))))

GetRqmcControlSequenceAnalysis(req) ==
    /\ call = Idle
    /\ Finish("get_rqmc_control_sequence_analysis", req,
              get_rqmc_control_sequence_analysis(req, rng))

GetRqmcVendorAssessment(req) ==
    /\ call = Idle
    /\ Finish("get_rqmc_vendor_assessment", req,
              get_rqmc_vendor_assessment(req, rng, vectorRosi))

\* Calls counted between a kept call and the current one
MaxBetween == 1

Respond ==
    /\ call # Idle
    /\ call' = Idle
    /\ outcome' = NoOutcome
    /\ sampled' = FALSE
    /\ engineInvoked' = FALSE
    /\ columnsRead' = <<>>
    /\ result' = NoResult
    /\ files' = {}
    /\ earlier' = IF earlier = NoEarlier THEN earlier
                  ELSE [earlier EXCEPT !.between = Min(@ + 1, MaxBetween)]
    /\ UNCHANGED <<rng, sobolTable, vectorRosi, loader, audit>>

\* Respond, the caller keeping what this call was given and what it answered
RespondKept ==
    /\ call # Idle
    /\ earlier' = [entry |-> call.entry, args |-> call.args, outcome |-> outcome,
                   result |-> result, between |-> 0]
    /\ call' = Idle
    /\ outcome' = NoOutcome
    /\ sampled' = FALSE
    /\ engineInvoked' = FALSE
    /\ columnsRead' = <<>>
    /\ result' = NoResult
    /\ files' = {}
    /\ UNCHANGED <<rng, sobolTable, vectorRosi, loader, audit>>

Next ==
    \/ \E scn \in SeqScenarios : SimulateControlSequenceOptimization(scn)
    \/ \E scn \in VendorScenarios : SimulateVendorAssessmentDecision(scn)
    \/ \E req \in SeqRequests : GetRqmcControlSequenceAnalysis(req)
    \/ \E req \in VendorRequests : GetRqmcVendorAssessment(req)
    \/ Respond

Spec == Init /\ [][Next]_vars

(***************************************************************************)
(* Repeated calls: a smaller set of scenarios, the caller keeping the      *)
(* answer of a call to compare it with the answer of a later one.          *)
(***************************************************************************)
RepeatSeqScenarios ==
    {scn \in SeqScenarios :
        /\ scn.num_samples = NUM_SAMPLES
        /\ scn.aro_range = <<R(1), R(1)>>
        /\ scn.cost_adjustment_range = <<R(0), R(0)>>}

RepeatVendorScenarios ==
    {scn \in VendorScenarios :
        /\ scn.num_samples = NUM_SAMPLES
        /\ scn.aro_range = <<R(1), R(2)>>
        /\ scn.control_reduction_ranges = VendorReductionRanges("varying", scn.num_vendors)}

NextRepeat ==
    \/ \E scn \in RepeatSeqScenarios : SimulateControlSequenceOptimization(scn)
    \/ \E scn \in RepeatVendorScenarios : SimulateVendorAssessmentDecision(scn)
    \/ Respond
    \/ RespondKept

SpecRepeat == Init /\ [][NextRepeat]_vars

(***************************************************************************)
(* Calls from Python code with output options: the scenarios are those of  *)
(* the example controls and vendors with the default sample count, every   *)
(* combination of output options is tried.  The call record keeps the      *)
(* scenario and the options.                                               *)
(***************************************************************************)
OutputSeqScenarios ==
    {scn \in SeqScenarios :
        /\ scn.num_samples = NUM_SAMPLES
        /\ scn.control_costs = SeqControlCosts("example", scn.num_years)}

OutputVendorScenarios ==
    {scn \in VendorScenarios :
        /\ scn.num_samples = NUM_SAMPLES
        /\ scn.control_costs = VendorControlCosts("example", scn.num_vendors)}

SimulateControlSequenceOptimizationWithOutput(scn, out) ==
    /\ call = Idle
    /\ Finish("simulate_control_sequence_optimization", [scenario |-> scn, out |-> out],
              Called(WriteOutputs(simulate_control_sequence_optimization(scn, rng),
                                  out, SeqProblem(scn))))

SimulateVendorAssessmentDecisionWithOutput(scn, out) ==
    /\ call = Idle
    /\ Finish("simulate_vendor_assessment_decision", [scenario |-> scn, out |-> out],
              Called(WriteOutputs(simulate_vendor_assessment_decision(scn, rng, vectorRosi),
                                  out, VendorProblem(scn))))

NextOutput ==
    \/ \E scn \in OutputSeqScenarios, out \in OutputOptions :
          SimulateControlSequenceOptimizationWithOutput(scn, out)
    \/ \E scn \in OutputVendorScenarios, out \in OutputOptions :
          SimulateVendorAssessmentDecisionWithOutput(scn, out)
    \/ Respond

SpecOutput == Init /\ [][NextOutput]_vars

(***************************************************************************)
(* Batch loading: one call of a loader on a file.                          *)
(***************************************************************************)
\* Files with a header and no data row or one data row
CsvFiles(mode) ==
    {[mode |-> mode, header |-> header, rows |-> <<>>] : header \in CsvHeaders(mode)}
    \cup UNION {{[mode |-> mode, header |-> header, rows |-> <<row>>] : row \in CsvRows(header)} :
                    header \in CsvHeaders(mode)}

LoadCsvData(file) ==
    /\ call = Idle
    /\ Finish("_load_csv_data", file,
              [rng |-> rng] @@ load_csv_data(file.mode, file.header, file.rows))

NextCsv ==
    \/ \E file \in CsvFiles("sequencing") : LoadCsvData(file)
    \/ \E file \in CsvFiles("vendor") : LoadCsvData(file)
    \/ Respond

SpecCsv == Init /\ [][NextCsv]_vars

(***************************************************************************)
(* Document loading: the steps of the calling thread and of the pool.       *)
(***************************************************************************)
\* executor.map(document_tupleize, document_names): every task is submitted
PopulateLoadedDocuments(document_names) ==
    /\ loader.pc = "idle"
    /\ loader' = [LoaderIdle EXCEPT !.pc = "merging", !.document_names = document_names,
                                    !.futures = [k \in 1..Len(document_names) |-> NotDone]]
    /\ UNCHANGED <<engineVars, audit>>

\* An idle thread of the pool takes the task at the head of the queue
WorkerTake(w) ==
    /\ loader.pc = "merging"
    /\ loader.workers[w] = 0
    /\ loader.taken < Len(loader.document_names)
    /\ loader' = [loader EXCEPT !.taken = @ + 1, !.workers[w] = loader.taken + 1]
    /\ UNCHANGED <<engineVars, audit>>

WorkerFinish(w) ==
    /\ loader.pc = "merging"
    /\ loader.workers[w] # 0
    /\ loader' = WorkerDone(loader, w)
    /\ UNCHANGED <<engineVars, audit>>

\* The calling thread gets the next result, once its future is done
CallerMerge ==
    /\ loader.pc = "merging"
    /\ loader.next <= Len(loader.document_names)
    /\ loader.futures[loader.next] # NotDone
    /\ loader' = MergeResult(loader)
    /\ UNCHANGED <<engineVars, audit>>

\* The results are exhausted, the pool is shut down, the dictionary is returned
CallerReturn ==
    /\ loader.pc = "merging"
    /\ loader.next > Len(loader.document_names)
    /\ \A w \in 1..max_workers : loader.workers[w] = 0
    /\ loader' = [loader EXCEPT !.pc = "returned"]
    /\ UNCHANGED <<engineVars, audit>>

InitDocuments == Init /\ rng = RANDOM_SEED /\ sobolTable = 0 /\ vectorRosi

NextDocuments ==
    \/ \E document_names \in DocumentDirectories : PopulateLoadedDocuments(document_names)
    \/ \E w \in 1..max_workers : WorkerTake(w)
    \/ \E w \in 1..max_workers : WorkerFinish(w)
    \/ CallerMerge
    \/ CallerReturn

SpecDocuments == InitDocuments /\ [][NextDocuments]_vars

(***************************************************************************)
(* Audit routes: the import of the module, then one request at a time.     *)
(***************************************************************************)
\* dotenv.load_dotenv() and os.getenv at import
LoadDotenv(token) ==
    /\ audit.pc = "unloaded"
    /\ audit' = [audit EXCEPT !.pc = "serving", !.VALID_DOCSITE_API_TOKEN = token]
    /\ UNCHANGED <<engineVars, loader>>

\* A request to a route of the audit router, answered
AuditRequest(req) ==
    /\ audit.pc = "serving"
    /\ audit.request = NoRequest
    /\ audit' = [audit EXCEPT !.request = req,
                              !.answer = AuditAnswer(req, audit.VALID_DOCSITE_API_TOKEN)]
    /\ UNCHANGED <<engineVars, loader>>

\* The answer is sent
AuditRespond ==
    /\ audit.pc = "serving"
    /\ audit.request # NoRequest
    /\ audit' = [audit EXCEPT !.request = NoRequest, !.answer = NoAnswer]
    /\ UNCHANGED <<engineVars, loader>>

InitAudit == Init /\ rng = RANDOM_SEED /\ sobolTable = 0 /\ vectorRosi

NextAudit ==
    \/ \E token \in ApiTokens : LoadDotenv(token)
    \/ \E req \in AuditRequests : AuditRequest(req)
    \/ AuditRespond

SpecAudit == InitAudit /\ [][NextAudit]_vars

(***************************************************************************)
(* Properties.                                                             *)
(***************************************************************************)
SeqEntries == {"simulate_control_sequence_optimization", "get_rqmc_control_sequence_analysis"}
VendorEntries == {"simulate_vendor_assessment_decision", "get_rqmc_vendor_assessment"}
Routes == {"get_rqmc_control_sequence_analysis", "get_rqmc_vendor_assessment"}

Done == call.pc = "done"
SeqReturned == Done /\ call.entry \in SeqEntries /\ outcome.kind = "returned"
VendorReturned == Done /\ call.entry \in VendorEntries /\ outcome.kind = "returned"

\* The arguments the engine ran with in the current call
EngineArguments ==
    CASE call.entry = "get_rqmc_control_sequence_analysis" -> SeqArguments(call.args)
      [] call.entry = "get_rqmc_vendor_assessment" -> VendorArguments(call.args)
      [] OTHER -> call.args

\* The ranked entry of a permutation
RankedEntry(res, permutation) ==
    res.ranked_permutations[CHOOSE k \in 1..Len(res.ranked_permutations) :
                                res.ranked_permutations[k].permutation = permutation]

RECURSIVE Factorial(_)
Factorial(n) == IF n <= 1 THEN 1 ELSE n * Factorial(n - 1)

IsOrderingOf(s, n) == Len(s) = n /\ {s[k] : k \in 1..n} = 1..n

ExampleSeqScenario ==
    SeqScenario(R(100), <<Frac(1, 2), Frac(1, 2)>>, <<R(1), R(1)>>, <<R(0), R(0)>>,
                "example", 2, NUM_SAMPLES)

\* C1: with asset 100000, EF 0.5, ARO 1, cost adjustment 0 and controls
\* {1000, 0.5}, {2000, 0.3}, the sequencing entry point reports for (1,2) the
\* yearly ROSI 2400% and 275% and the total 2675%, for (2,1) 650%, 1650% and
\* 2300%, and best_permutation (1,2) with best_rosi 2675%.
C1_SequencingExample ==
    (SeqReturned /\ call.entry = "simulate_control_sequence_optimization"
        /\ call.args = ExampleSeqScenario)
    => LET first == RankedEntry(result, <<1, 2>>)
           second == RankedEntry(result, <<2, 1>>)
       IN  /\ first.years[1].rosi = R(2400)
           /\ first.years[2].rosi = R(275)
           /\ first.total_rosi = R(2675)
           /\ second.years[1].rosi = R(650)
           /\ second.years[2].rosi = R(1650)
           /\ second.total_rosi = R(2300)
           /\ result.results.best_permutation = <<1, 2>>
           /\ result.results.best_rosi = R(2675)

\* What the code reports for the scenario of C1: the second year's ALE_after is
\* computed from the unreduced occurrence rate and the cost is cumulative
C1_Reported ==
    /\ SeqReturned /\ call.entry = "simulate_control_sequence_optimization"
    /\ call.args = ExampleSeqScenario
    /\ RankedEntry(result, <<1, 2>>).years[2].ale_before = R(25)
    /\ RankedEntry(result, <<1, 2>>).years[2].ale_after = R(35)
    /\ RankedEntry(result, <<1, 2>>).years[2].total_cost = R(3)
    /\ RankedEntry(result, <<1, 2>>).years[2].rosi = Frac(-1300, 3)
    /\ RankedEntry(result, <<1, 2>>).total_rosi = Frac(5900, 3)
    /\ RankedEntry(result, <<2, 1>>).years[1].rosi = R(650)
    /\ RankedEntry(result, <<2, 1>>).years[2].rosi = Frac(700, 3)
    /\ RankedEntry(result, <<2, 1>>).total_rosi = Frac(2650, 3)
    /\ result.results.best_permutation = <<1, 2>>

ExampleVendorScenario ==
    VendorScenario(R(100), <<Frac(1, 2), Frac(1, 2)>>, <<R(1), R(1)>>, "example", 2, NUM_SAMPLES)

\* C2: in vendor mode with asset 100000, EF 0.5, ARO 1, vendor A {5000, 0.5}
\* and vendor B {500, 0.3}, ALE_before is 50000 for both, A has ALE_after 25000
\* and ROSI 400%, B has ALE_after 35000 and ROSI 2900%; best_vendor lists B
\* first and most_effective_vendor lists A first.
C2_VendorExample ==
    (VendorReturned /\ EngineArguments = ExampleVendorScenario)
    => LET A == result.vendor_statistics[1]
           B == result.vendor_statistics[2]
       IN  /\ A.mean_ale_before = R(50) /\ B.mean_ale_before = R(50)
           /\ A.mean_ale_after = R(25) /\ A.mean_rosi = R(400)
           /\ B.mean_ale_after = R(35) /\ B.mean_rosi = R(2900)
           /\ result.best_vendor[1] = 2
           /\ result.most_effective_vendor[1] = 1
           /\ result.best_vendor # result.most_effective_vendor

C2_Witness ==
    /\ VendorReturned /\ EngineArguments = ExampleVendorScenario
    /\ result.best_vendor = <<2, 1>>
    /\ result.most_effective_vendor = <<1, 2>>

\* C3: a call of either entry point either raises a validation error before
\* any sample is generated or returns a result; no error is raised once
\* sampling has begun, in particular not by the vendor entry point when EF or
\* ARO is fixed while a reduction range varies, nor when several parameters vary.
C3_ReturnsOrRejectsBeforeSampling ==
    (Done /\ call.entry \in {"simulate_control_sequence_optimization",
                             "simulate_vendor_assessment_decision"})
    => \/ outcome.kind = "returned"
       \/ outcome.kind = "validation_error" /\ ~sampled

\* The vendor entry point raising KeyError from its sensitivity step
C3_KeyErrorAfterSampling ==
    /\ Done /\ call.entry = "simulate_vendor_assessment_decision"
    /\ outcome.kind = "raised" /\ outcome.error = "KeyError"
    /\ sampled
    /\ IsFixed(call.args.ef_range) /\ IsFixed(call.args.aro_range)

\* C4: for every ranked permutation the reported total_rosi is the sum of the
\* per-year rosi values reported for that permutation, also when EF or ARO vary.
C4_TotalIsSumOfYears ==
    SeqReturned
    => \A k \in 1..Len(result.ranked_permutations) :
          result.ranked_permutations[k].total_rosi
            = SampleTotalRosi(result.ranked_permutations[k].years)

\* A returned ranking whose total differs from the sum of its reported years
C4_TotalIsMeanOverSamples ==
    /\ SeqReturned /\ sampled
    /\ \E k \in 1..Len(result.ranked_permutations) :
          /\ IsFinite(result.ranked_permutations[k].total_rosi)
          /\ result.ranked_permutations[k].total_rosi
               # SampleTotalRosi(result.ranked_permutations[k].years)

\* C5: for N controls ranked_permutations has exactly N! entries, whose
\* permutation fields are pairwise distinct orderings of the ids 1..N.
C5_AllOrderingsRanked ==
    SeqReturned
    => LET ranked == result.ranked_permutations
           N == Len(EngineArguments.control_costs)
       IN  /\ Len(ranked) = Factorial(N)
           /\ \A k \in 1..Len(ranked) : IsOrderingOf(ranked[k].permutation, N)
           /\ \A j, k \in 1..Len(ranked) :
                 j # k => ranked[j].permutation # ranked[k].permutation

C5_Witness ==
    /\ SeqReturned
    /\ Len(EngineArguments.control_costs) = MaxControls
    /\ Len(result.ranked_permutations) = Factorial(MaxControls)

\* The defects of a request, read from its values
OutsideReduction(x) == ~(RLe(R(0), x) /\ RLe(x, Frac(99, 100)))

SeqRequestDefective(req) ==
    \/ RLe(req.asset_value, R(0))
    \/ RGt(req.exposure_factor_min, req.exposure_factor_max)
    \/ RGt(req.annual_rate_of_occurrence_min, req.annual_rate_of_occurrence_max)
    \/ RGt(req.cost_adjustment_min, req.cost_adjustment_max)
    \/ \E k \in 1..Len(req.control_reductions) : OutsideReduction(req.control_reductions[k])
    \/ \E k \in 1..Len(req.control_costs) : RLe(req.control_costs[k], R(0))
    \/ Len(req.control_costs) # Len(req.control_reductions)
    \/ req.control_costs = <<>>

VendorRequestDefective(req) ==
    \/ RLe(req.asset_value, R(0))
    \/ RGt(req.exposure_factor_min, req.exposure_factor_max)
    \/ RGt(req.annual_rate_of_occurrence_min, req.annual_rate_of_occurrence_max)
    \/ \E k \in 1..Len(req.control_reduction_mins) : OutsideReduction(req.control_reduction_mins[k])
    \/ \E k \in 1..Len(req.control_reduction_maxs) : OutsideReduction(req.control_reduction_maxs[k])
    \/ \E k \in 1..Len(req.control_costs) : RLe(req.control_costs[k], R(0))
    \/ Len(req.control_costs) # Len(req.control_reduction_mins)
    \/ Len(req.control_costs) # Len(req.control_reduction_maxs)
    \/ req.control_costs = <<>>

RequestDefective ==
    \/ call.entry = "get_rqmc_control_sequence_analysis" /\ SeqRequestDefective(call.args)
    \/ call.entry = "get_rqmc_vendor_assessment" /\ VendorRequestDefective(call.args)

\* C6: on both request paths a request with asset_value <= 0, an EF, ARO or
\* cost-adjustment range with min > max, a reduction outside [0, 0.99], a
\* cost <= 0, lists of different lengths or an empty control list is rejected
\* with a validation error before the engine is invoked.
C6_DefectsRejectedBeforeEngine ==
    (Done /\ call.entry \in Routes /\ RequestDefective)
    => outcome.kind = "validation_error" /\ ~engineInvoked /\ ~sampled

\* The sequencing route handing an inverted EF range to the engine
C6_InvertedRangeReachesEngine ==
    /\ Done /\ call.entry = "get_rqmc_control_sequence_analysis"
    /\ RGt(call.args.exposure_factor_min, call.args.exposure_factor_max)
    /\ engineInvoked
    /\ outcome.status = 500

AllDegenerate(args) ==
    /\ args.ef_range[1] = args.ef_range[2]
    /\ args.aro_range[1] = args.aro_range[2]
    /\ IF "cost_adjustment_range" \in DOMAIN args
       THEN args.cost_adjustment_range[1] = args.cost_adjustment_range[2]
       ELSE \A k \in 1..Len(args.control_reduction_ranges) :
               args.control_reduction_ranges[k][1] = args.control_reduction_ranges[k][2]

YearFields == {"ale_before", "ale_after", "control_cost", "total_cost", "rosi"}

C8_EqualCallsEqualResults ==
    (Done /\ earlier.entry = call.entry /\ earlier.args = call.args)
    => outcome = earlier.outcome /\ result = earlier.result

C8_Witness ==
    /\ Done /\ earlier.entry = call.entry /\ earlier.args = call.args
    /\ earlier.between >= 1
    /\ outcome.kind = "returned" /\ sampled
    /\ result = earlier.result

\* C9: ranked_permutations is ordered by total_rosi non-increasing, permutations
\* of equal total_rosi keep the order of enumeration, best_permutation and
\* best_rosi are those of the first ranked entry, and best_rosi >= total_rosi
\* of every ranked permutation.
EnumerationIndex(permutation) ==
    CHOOSE k \in 1..Len(all_permutations(Len(permutation))) :
        all_permutations(Len(permutation))[k] = permutation

C9_RankedByTotalRosi ==
    SeqReturned
    => LET ranked == result.ranked_permutations
       IN  /\ \A k \in 1..(Len(ranked) - 1) :
                 /\ RGe(ranked[k].total_rosi, ranked[k + 1].total_rosi)
                 /\ REq(ranked[k].total_rosi, ranked[k + 1].total_rosi)
                    => EnumerationIndex(ranked[k].permutation)
                         < EnumerationIndex(ranked[k + 1].permutation)
           /\ result.results.best_permutation = ranked[1].permutation
           /\ result.results.best_rosi = ranked[1].total_rosi
           /\ \A k \in 1..Len(ranked) : RGe(result.results.best_rosi, ranked[k].total_rosi)

\* A returned ranking whose first total is NaN: the costs compounded to zero
C9_NaNRankedFirst ==
    /\ SeqReturned
    /\ EngineArguments.cost_adjustment_range = <<R(-1), R(-1)>>
    /\ EngineArguments.num_samples = NUM_SAMPLES
    /\ IsNaN(result.results.best_rosi)
    /\ \E k \in 1..Len(result.ranked_permutations) :
          ~IsNaN(result.ranked_permutations[k].total_rosi)

IsNonIncreasing(keys) == \A k \in 1..(Len(keys) - 1) : RGe(keys[k], keys[k + 1])
IsNonDecreasing(keys) == \A k \in 1..(Len(keys) - 1) : RLe(keys[k], keys[k + 1])

\* Other cost lists for the vendors of a scenario
OtherCosts(m) == {VendorControlCosts(kind, m) : kind \in {"example", "equal"}}
                 \cup {Tup([k \in 1..m |-> R(k)])}

C11_YearZeroIsBaseCost ==
    SeqReturned
    => LET schedule == result.results.control_cost_values
           costs == EngineArguments.control_costs
           N == Len(costs)
       IN  /\ Len(schedule) = N + 1
           /\ \A y \in 1..(N + 1) : Len(schedule[y]) = N
           /\ \A k \in 1..N : schedule[1][k] = [cost |-> costs[k], adjustment |-> R(0)]

\* A schedule computed from sampled adjustments, a later year differing from year_0
C11_Witness ==
    /\ SeqReturned /\ sampled
    /\ ~IsFixed(EngineArguments.cost_adjustment_range)
    /\ Len(EngineArguments.control_costs) = MaxControls
    /\ \E k \in 1..MaxControls :
          /\ result.results.control_cost_values[1][k].cost = EngineArguments.control_costs[k]
          /\ result.results.control_cost_values[2][k].adjustment # R(0)
          /\ result.results.control_cost_values[2][k].cost # EngineArguments.control_costs[k]

\* C12: the object returned by both entry points has the top-level keys
\* simulation_parameters, results, sensitivity_results, and ranked_permutations
\* (sequencing) or vendor_statistics (vendor mode); the best permutation or best
\* vendor and its top-line metric are found under results.
C12_ReturnedObjectKeys ==
    /\ SeqReturned
       => /\ {"simulation_parameters", "results", "sensitivity_results", "ranked_permutations"}
               \subseteq DOMAIN result
          /\ {"best_permutation", "best_rosi"} \subseteq DOMAIN result.results
    /\ VendorReturned
       => /\ {"simulation_parameters", "results", "sensitivity_results", "vendor_statistics"}
               \subseteq DOMAIN result
          /\ "best_vendor" \in DOMAIN result.results

\* What vendor mode returns: the inputs under input_parameters, the sensitivity
\* indices under sensitivity_analysis, the two rankings at the top level and no
\* results key
C12_VendorKeys ==
    /\ VendorReturned
    /\ DOMAIN result = {"input_parameters", "vendor_statistics", "best_vendor",
                        "most_effective_vendor", "sensitivity_analysis"}
    /\ result.input_parameters = EngineArguments

\* The paths supplied with a call
SuppliedPaths(out) ==
    (IF out.output_json_file THEN {"json"} ELSE {})
    \cup (IF out.output_png_file THEN {"png"} ELSE {})

FailsHandlerCheck ==
    \/ call.entry = "get_rqmc_control_sequence_analysis" /\ SeqHandlerError(call.args) # ""
    \/ call.entry = "get_rqmc_vendor_assessment" /\ VendorHandlerError(call.args) # ""

\* C14: on the risk-calculation routes a request that fails input validation,
\* including the checks done inside the handler (list-length mismatch, empty
\* control list, reduction outside [0, 0.99], cost <= 0, range min > max), is
\* answered with status 422; status 500 is returned only when the simulation
\* itself fails.
C14_ValidationFailuresAre422 ==
    (Done /\ call.entry \in Routes)
    => /\ (RequestDefective \/ FailsHandlerCheck) => outcome.status = 422
       /\ outcome.status = 500 => engineInvoked /\ outcome.kind = "runtime_error"

\* A request that passes the declared parameter constraints and fails a check of
\* the handler: the ValueError is caught by the handler's own except clause and
\* answered with status 500, the engine not having been called
C14_HandlerCheckAnswered500 ==
    /\ Done /\ call.entry = "get_rqmc_vendor_assessment"
    /\ VendorQueryValid(call.args)
    /\ VendorHandlerError(call.args) = "Control cost must be greater than 0"
    /\ outcome.status = 500
    /\ ~engineInvoked

\* The controls of the file of the current call that lack one of their columns:
\* a column of control k is in the header and another is not, or a data row is
\* too short to reach one of them
ControlsLackingColumn ==
    {k \in 1..MaxCsvControls :
        /\ \E name \in {CsvColumns(call.args.mode)[i] : i \in 1..Len(CsvColumns(call.args.mode))} :
              <<name, k>> \in call.args.header
        /\ \/ \E name \in {CsvColumns(call.args.mode)[i] : i \in 1..Len(CsvColumns(call.args.mode))} :
                 <<name, k>> \notin call.args.header
           \/ \E i \in 1..Len(call.args.rows), column \in call.args.header :
                 column[2] = k /\ call.args.rows[i][column] = "none"}

\* C15: the batch CSV loader rejects any input in which a control lacks one of
\* its columns (in the header or in a data row) by raising a ValueError that
\* names the missing control index; it never silently drops such a control nor
\* fails with a different error type.
C15_MissingControlColumnRejected ==
    (Done /\ call.entry = "_load_csv_data" /\ ControlsLackingColumn # {})
    => /\ outcome.kind = "raised"
       /\ outcome.error = "ValueError"
       /\ result.control \in ControlsLackingColumn

\* A sequencing file with the columns of control 1 and the cost column of control
\* 2, without control_reduction_2: it loads, control 2 dropped from every risk
C15_ControlSilentlyDropped ==
    /\ Done /\ call.entry = "_load_csv_data" /\ call.args.mode = "sequencing"
    /\ call.args.header = {<<"control_reduction", 1>>, <<"control_cost", 1>>, <<"control_cost", 2>>}
    /\ Len(call.args.rows) = 1
    /\ outcome.kind = "returned"
    /\ result.data[1] = {1}

\* The year records the evaluator builds for sample i (0-based) of a permutation
\* in the current call
EvaluatedYears(permutation, i) ==
    YearRecords(EngineArguments, SeedAtEntry(rng), result.results.control_cost_values,
                permutation, i, Len(permutation) - 1)

\* C16: in the permutation evaluator, for every permutation, every sample and
\* every year y > 1, ALE_before(y) equals ALE_after(y-1) of the same permutation
\* and sample; only in year 1 is ALE_before computed from that sample's EF and
\* ARO draw.
C16_AleBeforeIsPreviousAleAfter ==
    SeqReturned
    => \A k \in 1..Len(result.ranked_permutations), i \in 0..(EngineArguments.num_samples - 1) :
          LET years == EvaluatedYears(result.ranked_permutations[k].permutation, i)
          IN  /\ years[1].ale_before
                   = calculate_ale(EngineArguments.asset_value,
                                   ef_samples(EngineArguments, SeedAtEntry(rng), i, 0),
                                   aro_samples(EngineArguments, SeedAtEntry(rng), i, 0))
              /\ \A y \in 2..Len(years) : years[y].ale_before = years[y - 1].ale_after

\* A sampled call with two years in which, for some sample, the second year's
\* ALE_before is the first year's ALE_after and differs from the ALE of the
\* second year's own EF and ARO draw
C16_Witness ==
    /\ SeqReturned /\ sampled
    /\ EngineArguments.num_years = 2
    /\ \E i \in 0..(EngineArguments.num_samples - 1) :
          /\ EvaluatedYears(<<1, 2>>, i)[2].ale_before = EvaluatedYears(<<1, 2>>, i)[1].ale_after
          /\ EvaluatedYears(<<1, 2>>, i)[2].ale_before
               # calculate_ale(EngineArguments.asset_value,
                               ef_samples(EngineArguments, SeedAtEntry(rng), i, 1),
                               aro_samples(EngineArguments, SeedAtEntry(rng), i, 1))

\* The sum of the costs of the controls in positions 1..y of a permutation, each
\* at its cost in the schedule of the year in which it is applied
CostWhenApplied(schedule, permutation, y) ==
    RSum(Tup([j \in 1..y |-> schedule[j + 1][permutation[j]].cost]))

\* C17: in the permutation evaluator, cumulative_cost(y) is the sum of the
\* compounded costs of exactly the controls applied in years 1..y, each taken at
\* the cost it had in the year it was applied; rosi(y) uses this cumulative
\* cost, not the single year-y control cost, as its cost term.
C17_CumulativeCostAtYearApplied ==
    SeqReturned
    => \A k \in 1..Len(result.ranked_permutations) :
          \A y \in 1..Len(result.ranked_permutations[k].years) :
             LET entry == result.ranked_permutations[k]
             IN  /\ entry.years[y].total_cost
                      = CostWhenApplied(result.results.control_cost_values, entry.permutation, y)
                 /\ entry.years[y].rosi
                      = calculate_rosi(entry.years[y].ale_before, entry.years[y].ale_after,
                                       entry.years[y].total_cost)

\* A returned ranking in which the second year's total_cost is the sum of both
\* controls' costs in the schedule of year 2, and differs from the sum of each
\* control's cost in the year it was applied
C17_AllCostsAtCurrentYear ==
    /\ SeqReturned /\ sampled
    /\ EngineArguments.num_years = 2
    /\ \E k \in 1..Len(result.ranked_permutations) :
          /\ result.ranked_permutations[k].years[2].total_cost
               = RAdd(result.results.control_cost_values[3][1].cost,
                      result.results.control_cost_values[3][2].cost)
          /\ IsFinite(result.ranked_permutations[k].years[2].total_cost)
          /\ result.ranked_permutations[k].years[2].total_cost
               # CostWhenApplied(result.results.control_cost_values,
                                 result.ranked_permutations[k].permutation, 2)

\* The totals of the samples of a permutation in the current call, one per
\* sample in order: each is the sum of the sample's per-year ROSI values
SampleTotals(permutation) ==
    [i \in 1..EngineArguments.num_samples |->
        RSum([y \in 1..Len(permutation) |-> EvaluatedYears(permutation, i - 1)[y].rosi])]

\* C18: the reported total_rosi of a permutation is the arithmetic mean, over
\* all num_samples samples, of the sample's sum of per-year ROSI values; every
\* sample contributes exactly once with equal weight.
C18_TotalRosiIsMeanOverSamples ==
    SeqReturned
    => \A k \in 1..Len(result.ranked_permutations) :
          result.ranked_permutations[k].total_rosi
            = RDiv(RSum(SampleTotals(result.ranked_permutations[k].permutation)),
                   R(EngineArguments.num_samples))

\* A sampled call in which two samples of the best permutation have different
\* finite totals and the reported total_rosi is their mean over all samples
C18_Witness ==
    /\ SeqReturned /\ sampled
    /\ IsFinite(result.results.best_rosi)
    /\ \E i, j \in 1..EngineArguments.num_samples :
          SampleTotals(result.results.best_permutation)[i]
            # SampleTotals(result.results.best_permutation)[j]
    /\ result.results.best_rosi
         = RDiv(RSum(SampleTotals(result.results.best_permutation)),
                R(EngineArguments.num_samples))
    /\ result.results.best_rosi
         # SampleTotals(result.results.best_permutation)[EngineArguments.num_samples]

\* C19: for every year y in 1..N and every control, the scheduled cost is
\* cost(y) = cost(y-1) * (1 + adjustment(y)), with adjustment(y) the adjustment
\* recorded for that (year, control) slot; nothing else enters and no clamping
\* is applied.
C19_CostCompoundsOnPreviousYear ==
    SeqReturned
    => \A y \in 1..EngineArguments.num_years, k \in 1..Len(EngineArguments.control_costs) :
          result.results.control_cost_values[y + 1][k].cost
            = RMul(result.results.control_cost_values[y][k].cost,
                   RAdd(R(1), result.results.control_cost_values[y + 1][k].adjustment))

\* A call whose schedule has a slot with a negative adjustment: the cost of that
\* year is below the previous year's cost and is the previous cost times
\* (1 + adjustment)
C19_Witness ==
    /\ SeqReturned
    /\ \E y \in 1..EngineArguments.num_years, k \in 1..Len(EngineArguments.control_costs) :
          /\ IsFinite(result.results.control_cost_values[y + 1][k].adjustment)
          /\ result.results.control_cost_values[y + 1][k].adjustment[1] < 0
          /\ result.results.control_cost_values[y + 1][k].cost
               # result.results.control_cost_values[y][k].cost
          /\ result.results.control_cost_values[y + 1][k].cost
               = RMul(result.results.control_cost_values[y][k].cost,
                      RAdd(R(1), result.results.control_cost_values[y + 1][k].adjustment))

\* C20: the number of samples averaged for each (year, control) adjustment slot
\* is max(1, sample_count div (num_controls * num_years)), where sample_count is
\* the num_samples passed to the sequencing entry point, not a fixed constant:
\* the schedule returned is the one computed with blocks of that size.
C20_BlockSizeFromScenarioSamples ==
    SeqReturned
    => result.results.control_cost_values
         = calculate_compounding_costs(EngineArguments, SeedAtEntry(rng),
                                       EngineArguments.num_samples)

\* A sampled call with more samples than NUM_SAMPLES: the block size of the
\* scenario's sample count is larger than that of NUM_SAMPLES, and the schedule
\* returned is the one of NUM_SAMPLES, which differs from the scenario's
C20_BlockSizeFromConstant ==
    /\ SeqReturned /\ sampled
    /\ EngineArguments.num_samples > NUM_SAMPLES
    /\ BlockSize(Len(EngineArguments.control_costs), EngineArguments.num_years,
                 EngineArguments.num_samples)
         > BlockSize(Len(EngineArguments.control_costs), EngineArguments.num_years, NUM_SAMPLES)
    /\ result.results.control_cost_values
         = calculate_compounding_costs(EngineArguments, SeedAtEntry(rng), NUM_SAMPLES)
    /\ result.results.control_cost_values
         # calculate_compounding_costs(EngineArguments, SeedAtEntry(rng),
                                       EngineArguments.num_samples)

\* The names of the parameters of the current call whose range is not a single
\* value: EF, ARO, and the cost adjustment (sequencing) or each vendor's
\* reduction (vendor mode)
NonDegenerateParameters ==
    {name \in {"EF"} : EngineArguments.ef_range[1] # EngineArguments.ef_range[2]}
    \cup {name \in {"ARO"} : EngineArguments.aro_range[1] # EngineArguments.aro_range[2]}
    \cup (IF call.entry \in SeqEntries
          THEN {name \in {"cost_variance"} :
                   EngineArguments.cost_adjustment_range[1] # EngineArguments.cost_adjustment_range[2]}
          ELSE {VendorReductionName(j) : j \in
                   {i \in 1..Len(EngineArguments.control_reduction_ranges) :
                       EngineArguments.control_reduction_ranges[i][1]
                         # EngineArguments.control_reduction_ranges[i][2]}})

\* The sensitivity result of a call that returned
SensitivityResult ==
    IF call.entry \in SeqEntries THEN result.sensitivity_results ELSE result.sensitivity_analysis

\* C21: a call of either entry point yields a sensitivity result with exactly
\* one entry, of the four fields S1, S1_conf, ST and ST_conf, for each parameter
\* whose range is non-degenerate, none for a parameter with min = max, and the
\* result is empty exactly when no parameter varies.
C21_SensitivityEntriesAreVaryingParameters ==
    (Done /\ call.entry \in {"simulate_control_sequence_optimization",
                             "simulate_vendor_assessment_decision"})
    => /\ outcome.kind = "returned"
       /\ DOMAIN SensitivityResult = NonDegenerateParameters
       /\ \A name \in NonDegenerateParameters :
             DOMAIN SensitivityResult[name] = {"S1", "S1_conf", "ST", "ST_conf"}

\* A vendor call with EF fixed and a vendor's reduction range varying: the
\* call raises KeyError and yields no sensitivity result at all
C21_VendorFixedEfNoResult ==
    /\ Done /\ call.entry = "simulate_vendor_assessment_decision"
    /\ EngineArguments.ef_range[1] = EngineArguments.ef_range[2]
    /\ NonDegenerateParameters # {}
    /\ outcome.kind = "raised" /\ outcome.error = "KeyError"

\* A call of an entry point from Python code; the scenarios called this way
\* have every range with min <= max
DirectSeqCall == Done /\ call.entry = "simulate_control_sequence_optimization"
DirectVendorCall == Done /\ call.entry = "simulate_vendor_assessment_decision"

\* The three ranges of a sequencing call, in the order EF, ARO, cost adjustment,
\* and the names param_order gives them
SeqRanges ==
    <<EngineArguments.ef_range, EngineArguments.aro_range, EngineArguments.cost_adjustment_range>>
SeqParamNames == <<"EF", "ARO", "COST">>

\* The number of entries param_order has for a parameter
DimensionsOf(name) ==
    Cardinality({k \in 1..Len(SeqParamOrder(EngineArguments)) :
                    SeqParamOrder(EngineArguments)[k][1] = name})

OwnSample(v, i) ==
    [ale_before |-> calculate_ale(EngineArguments.asset_value,
                                  VendorEfSample(EngineArguments, SeedAtEntry(rng), i, v - 1),
                                  VendorAroSample(EngineArguments, SeedAtEntry(rng), i, v - 1)),
     ale_after |-> calculate_ale(EngineArguments.asset_value,
                                 VendorEfSample(EngineArguments, SeedAtEntry(rng), i, v - 1),
                                 RMul(VendorAroSample(EngineArguments, SeedAtEntry(rng), i, v - 1),
                                      RSub(R(1), control_reduction_samples(EngineArguments,
                                                       SeedAtEntry(rng), i, v)))),
     control_reduction |-> control_reduction_samples(EngineArguments, SeedAtEntry(rng), i, v)]

OwnRosi(v, i) ==
    calculate_rosi(OwnSample(v, i).ale_before, OwnSample(v, i).ale_after,
                   EngineArguments.control_costs[v])

\* C23: in vendor mode every control-effectiveness value used for vendor v lies
\* within vendor v's declared range, vendor v's per-sample ALE_before, ALE_after
\* and ROSI come only from vendor v's own EF, ARO and effectiveness draws and
\* own cost, and for every sample ALE_after <= ALE_before.
C23_VendorUsesOwnDrawsWithinRange ==
    VendorReturned
    => \A v \in 1..EngineArguments.num_vendors :
          /\ \A i \in 0..(EngineArguments.num_samples - 1) :
                /\ RLe(EngineArguments.control_reduction_ranges[v][1],
                       VendorSample(EngineArguments, SeedAtEntry(rng), v, i).control_reduction)
                /\ RLe(VendorSample(EngineArguments, SeedAtEntry(rng), v, i).control_reduction,
                       EngineArguments.control_reduction_ranges[v][2])
                /\ VendorSample(EngineArguments, SeedAtEntry(rng), v, i).ale_before
                     = OwnSample(v, i).ale_before
                /\ VendorSample(EngineArguments, SeedAtEntry(rng), v, i).ale_after
                     = OwnSample(v, i).ale_after
                /\ VendorSample(EngineArguments, SeedAtEntry(rng), v, i).rosi = OwnRosi(v, i)
                /\ RLe(OwnSample(v, i).ale_after, OwnSample(v, i).ale_before)
          /\ result.vendor_statistics[v].mean_ale_after
               = RMean([i \in 1..EngineArguments.num_samples |-> OwnSample(v, i - 1).ale_after])
          /\ result.vendor_statistics[v].mean_rosi
               = RMean([i \in 1..EngineArguments.num_samples |-> OwnRosi(v, i - 1)])

\* A vendor call with two vendors that returned with sampled, varying
\* reductions: the first vendor's effectiveness takes two different values
\* within its range, the second vendor's is its own fixed value, different from
\* the first vendor's in that sample, and ALE_after is strictly below ALE_before
C23_Witness ==
    /\ VendorReturned /\ sampled
    /\ EngineArguments.num_vendors = 2
    /\ \E i, j \in 0..(EngineArguments.num_samples - 1) :
          /\ OwnSample(1, i).control_reduction # OwnSample(1, j).control_reduction
          /\ OwnSample(2, i).control_reduction # OwnSample(1, i).control_reduction
          /\ OwnSample(2, i).control_reduction = EngineArguments.control_reduction_ranges[2][1]
          /\ RLt(OwnSample(1, i).ale_after, OwnSample(1, i).ale_before)
    /\ result.vendor_statistics[2].mean_rosi
         = RMean([i \in 1..EngineArguments.num_samples |-> OwnRosi(2, i - 1)])

\* The dictionary a single thread builds from the first k files of the list,
\* one after the other in the order of the list
RECURSIVE SequentialDocuments(_, _)
SequentialDocuments(document_names, k) ==
    IF k = 0 THEN NoDocuments
    ELSE IF document_tupleize(document_names[k]) = PyNone
    THEN SequentialDocuments(document_names, k - 1)
    ELSE DictSet(SequentialDocuments(document_names, k - 1),
                 document_tupleize(document_names[k]).document_name,
                 document_tupleize(document_names[k]).document_content)

\* The files of the list that hold a document
ProperlyFormatted(document_names) ==
    {k \in 1..Len(document_names) : document_names[k].yaml \in YamlDocuments}

\* C24: populate_loaded_documents returns the same dictionary under every
\* interleaving of the workers: it has an entry for every properly formatted
\* file and none for an improperly formatted one, the results are merged in the
\* order of the input file list, and only the calling thread writes the
\* dictionary.
C24_DocumentsIndependentOfInterleaving ==
    /\ loader.loaded_documents = SequentialDocuments(loader.document_names, loader.next - 1)
    /\ \A k \in 1..Len(loader.writes) :
          /\ loader.writes[k][1] = "caller"
          /\ k > 1 => loader.writes[k - 1][2] < loader.writes[k][2]
    /\ loader.pc = "returned"
       => /\ loader.loaded_documents
               = SequentialDocuments(loader.document_names, Len(loader.document_names))
          /\ DOMAIN loader.loaded_documents
               = {loader.document_names[k].stem : k \in ProperlyFormatted(loader.document_names)}
          /\ {loader.writes[k][2] : k \in 1..Len(loader.writes)}
               = ProperlyFormatted(loader.document_names)

\* Three files, the first two with the same name and different documents, on
\* two workers: the third task is done while the second is still running, and
\* the calling thread has merged the first result and waits for the second
C24_Witness ==
    /\ loader.pc = "merging"
    /\ Len(loader.document_names) = 3
    /\ loader.document_names[1].stem = loader.document_names[2].stem
    /\ loader.document_names[1].yaml \in YamlDocuments
    /\ loader.document_names[2].yaml \in YamlDocuments
    /\ loader.document_names[1].yaml # loader.document_names[2].yaml
    /\ loader.futures[2] = NotDone
    /\ loader.futures[3] # NotDone
    /\ loader.next = 2
    /\ loader.writes = << <<"caller", 1>> >>

\* C25: in the permutation evaluator, for every permutation, sample and year y
\* (y > 1 included), ALE_after(y) <= ALE_before(y): applying a control never
\* makes the residual loss larger than the loss carried in from the previous year.
C25_AleAfterNeverAboveAleBefore ==
    SeqReturned
    => \A k \in 1..Len(result.ranked_permutations), i \in 0..(EngineArguments.num_samples - 1) :
          \A y \in 1..EngineArguments.num_years :
             RLe(EvaluatedYears(result.ranked_permutations[k].permutation, i)[y].ale_after,
                 EvaluatedYears(result.ranked_permutations[k].permutation, i)[y].ale_before)

\* The example scenario (EF 0.5, ARO 1, controls {1000, 0.5} and {2000, 0.3}):
\* permutation (1,2) is reported with ALE_before 25000 and ALE_after 35000 in year 2
C25_ResidualLossGrows ==
    /\ SeqReturned /\ EngineArguments = ExampleSeqScenario
    /\ RankedEntry(result, <<1, 2>>).years[2].ale_before = R(25)
    /\ RankedEntry(result, <<1, 2>>).years[2].ale_after = R(35)

\* C26: for every scenario that passes request validation (costs > 0, cost
\* adjustment bounds within [-1, 1]), every cost term used as the divisor of a
\* ROSI computation in the permutation evaluator is strictly positive.
C26_RosiDivisorPositive ==
    (SeqReturned /\ call.entry = "get_rqmc_control_sequence_analysis")
    => \A k \in 1..Len(result.ranked_permutations), i \in 0..(EngineArguments.num_samples - 1) :
          \A y \in 1..EngineArguments.num_years :
             RGt(EvaluatedYears(result.ranked_permutations[k].permutation, i)[y].total_cost, R(0))

\* A request with positive costs and the cost adjustment fixed at -1 that was
\* answered: the cost term of year 1 is 0 and the ROSI reported is not finite
C26_ZeroCostDivisor ==
    /\ SeqReturned /\ call.entry = "get_rqmc_control_sequence_analysis"
    /\ \A c \in 1..Len(EngineArguments.control_costs) : RGt(EngineArguments.control_costs[c], R(0))
    /\ EngineArguments.cost_adjustment_range = <<R(-1), R(-1)>>
    /\ result.ranked_permutations[1].years[1].total_cost = R(0)
    /\ ~IsFinite(result.ranked_permutations[1].years[1].rosi)

\* The rows of the cost-adjustment sample array averaged for the slot of a year
\* (1-based) and a control (0-based index) in the current call; the entry point
\* leaves the callee's num_samples at its default
SlotRows(year, index) ==
    BlockRows(Len(EngineArguments.control_costs), EngineArguments.num_years, NUM_SAMPLES,
              EngineArguments.num_samples, year, index)

SlotsOfCall ==
    (1..EngineArguments.num_years) \X (0..(Len(EngineArguments.control_costs) - 1))

\* C27: in a sequencing run with any num_samples and N controls, the block of
\* sample rows averaged for each (year, control) slot is non-empty, lies
\* entirely within rows 0..num_samples-1 of the cost-adjustment sample array,
\* and the blocks of distinct slots do not overlap.
C27_BlocksNonEmptyWithinDisjoint ==
    SeqReturned
    => \A slot \in SlotsOfCall :
          /\ SlotRows(slot[1], slot[2]) # {}
          /\ Cardinality(SlotRows(slot[1], slot[2]))
               = BlockSize(Len(EngineArguments.control_costs), EngineArguments.num_years, NUM_SAMPLES)
          /\ ~IsNaN(result.results.control_cost_values[slot[1] + 1][slot[2] + 1].adjustment)
          /\ \A other \in SlotsOfCall \ {slot} :
                SlotRows(slot[1], slot[2]) \cap SlotRows(other[1], other[2]) = {}

\* A call with two controls and fewer samples than slots: the block of the last
\* slot starts beyond the last row, nothing is averaged and the adjustment
\* recorded for the slot is NaN
C27_EmptyBlock ==
    /\ SeqReturned /\ call.entry = "simulate_control_sequence_optimization"
    /\ EngineArguments.num_years = 2
    /\ EngineArguments.num_samples < 4
    /\ SlotRows(2, 1) = {}
    /\ IsNaN(result.results.control_cost_values[3][2].adjustment)

\* The (parameter, year) slots of a sequencing call that read a column, and the
\* (block, vendor, range) slots of a vendor call: block 1 is EF, 2 is ARO, 3 the
\* reduction slices
SeqSlots ==
    {slot \in (1..3) \X (0..(EngineArguments.num_years - 1)) : SeqRanges[slot[1]][1] # SeqRanges[slot[1]][2]}

VendorSlots ==
    {slot \in (1..2) \X (0..(EngineArguments.num_vendors - 1)) \X {0} :
        IF slot[1] = 1 THEN EngineArguments.ef_range[1] # EngineArguments.ef_range[2]
        ELSE EngineArguments.aro_range[1] # EngineArguments.aro_range[2]}
    \cup {slot \in {3} \X (0..(EngineArguments.num_vendors - 1))
                       \X (1..Len(EngineArguments.control_reduction_ranges)) :
             EngineArguments.control_reduction_ranges[slot[3]][1]
               # EngineArguments.control_reduction_ranges[slot[3]][2]}

\* The column a vendor slot reads
VendorSlotColumn(slot) ==
    CASE slot[1] = 1 -> slot[2]
      [] slot[1] = 2 -> VendorEfColumns(EngineArguments) + slot[2]
      [] OTHER -> VendorReductionColumn(EngineArguments, slot[2], slot[3])

\* The columns of a sequence are 0..D-1, each once
EachColumnOnce(columns, D) ==
    /\ Len(columns) = D
    /\ {columns[k] : k \in 1..Len(columns)} = 0..(D - 1)

\* C28: when the sample matrix with D columns is distributed over the EF, ARO
\* and cost-adjustment (or vendor effectiveness) arrays, every column index
\* 0..D-1 is read exactly once, each by a different slot, no index >= D is read
\* and the column counter ends at D, in both modes and for every combination of
\* fixed and varying parameters.
C28_EveryColumnReadOnce ==
    /\ DirectSeqCall
       => /\ EachColumnOnce(columnsRead, Len(SeqParamOrder(EngineArguments)))
          /\ \A slot \in SeqSlots :
                /\ SeqColumn(EngineArguments, slot[1], slot[2])
                     \in 0..(Len(SeqParamOrder(EngineArguments)) - 1)
                /\ \A other \in SeqSlots \ {slot} :
                      SeqColumn(EngineArguments, slot[1], slot[2])
                        # SeqColumn(EngineArguments, other[1], other[2])
          /\ Cardinality(SeqSlots) = Len(SeqParamOrder(EngineArguments))
    /\ DirectVendorCall
       => /\ EachColumnOnce(columnsRead, VendorParamCount(EngineArguments))
          /\ \A slot \in VendorSlots :
                /\ VendorSlotColumn(slot) \in 0..(VendorParamCount(EngineArguments) - 1)
                /\ \A other \in VendorSlots \ {slot} :
                      VendorSlotColumn(slot) # VendorSlotColumn(other)
          /\ Cardinality(VendorSlots) = VendorParamCount(EngineArguments)

\* A sequencing call over two years in which EF is fixed and the ARO and the
\* cost adjustment vary: the four columns 0..3 are read, ARO year 2 reads
\* column 1 and the cost adjustment of year 1 reads column 2
C28_Witness ==
    /\ DirectSeqCall /\ sampled
    /\ EngineArguments.num_years = 2
    /\ SeqRanges[1][1] = SeqRanges[1][2]
    /\ columnsRead = <<0, 1, 2, 3>>
    /\ SeqColumn(EngineArguments, 2, 1) = 1
    /\ SeqColumn(EngineArguments, 3, 0) = 2

\* The current call and the call kept by the caller are sequencing calls that
\* returned and agree on everything but the costs and reductions of controls 2..N
AgreeUpToLaterControls ==
    /\ SeqReturned /\ call.entry = "simulate_control_sequence_optimization"
    /\ earlier # NoEarlier
    /\ earlier.entry = "simulate_control_sequence_optimization"
    /\ earlier.outcome.kind = "returned"
    /\ earlier.args.asset_value = call.args.asset_value
    /\ earlier.args.ef_range = call.args.ef_range
    /\ earlier.args.aro_range = call.args.aro_range
    /\ earlier.args.cost_adjustment_range = call.args.cost_adjustment_range
    /\ earlier.args.num_years = call.args.num_years
    /\ earlier.args.num_samples = call.args.num_samples
    /\ earlier.args.control_costs[1] = call.args.control_costs[1]
    /\ earlier.args.control_reductions[1] = call.args.control_reductions[1]

\* C29: in sequencing mode the sensitivity result depends on the controls only
\* through the first control's cost and reduction: two scenarios that agree on
\* the asset value, all ranges and control 1 and differ only in the costs or
\* reductions of controls 2..N yield identical sensitivity results.
C29_SensitivityOfFirstControlOnly ==
    AgreeUpToLaterControls => result.sensitivity_results = earlier.result.sensitivity_results

\* Two calls with a varying EF that differ in the cost and the reduction of the
\* second control: the rankings differ, the sensitivity results are the same
\* and not empty
C29_Witness ==
    /\ AgreeUpToLaterControls
    /\ call.args.num_years = 2
    /\ earlier.args.control_costs[2] # call.args.control_costs[2]
    /\ earlier.args.control_reductions[2] # call.args.control_reductions[2]
    /\ DOMAIN result.sensitivity_results = {"EF"}
    /\ result.sensitivity_results = earlier.result.sensitivity_results
    /\ result.ranked_permutations # earlier.result.ranked_permutations

====
